---- MODULE Spec2Model ----
(***************************************************************************)
(* Orca Whirlpools governance plugin: the instruction-builder forms.       *)
(*                                                                         *)
(* Every form component keeps a `form` object and a `formErrors` object in *)
(* React state and registers an async getInstruction() with the proposal   *)
(* context.  getInstruction validates the form against a yup schema,       *)
(* checks that the wallet / governed account / connection are present,     *)
(* calls the Orca SDK and returns a UiInstruction                          *)
(* {serializedInstruction, isValid, additionalSerializedInstructions}.     *)
(*                                                                         *)
(* The repository holds the same pattern many times over, with             *)
(* variations.  Each component is described by one catalogue record        *)
(* (its schema rules, its guard, its catch clause, how it lays out the     *)
(* returned instructions); the actions below run getInstruction for the    *)
(* component chosen in the initial state, split at its awaits.             *)
(***************************************************************************)
EXTENDS Integers, Sequences, FiniteSets, TLC

\* ----------------------------------------------------------------- bounds
\* Mint decimals fetched from chain range over 0..MaxDecimals.
MaxDecimals == 1
\* An SDK builder returns at most MaxInstructions instructions.
MaxInstructions == 2
\* A position's liquidity ranges over 0..MaxLiquidity, and a pool has
\* NumRewards reward slots (the Whirlpool account has three).
MaxLiquidity == 1
NumRewards == 3
\* A token amount in base units (a form amount, an SDK quote) ranges over
\* 0..MaxAmount.
MaxAmount == 2

\* ------------------------------------------------- text typed into inputs
\* A string typed into an amount or price input.  kind "num" is a well
\* formed decimal literal of value (-1)^neg * m * 10^(-e); "junk" is such a
\* literal followed by other characters ("1x"); "empty" is "".
Str(kind, neg, m, e) == [kind |-> kind, neg |-> neg, m |-> m, e |-> e]
S_empty == Str("empty", FALSE, 0, 0)
S_0     == Str("num", FALSE, 0, 0)
S_1     == Str("num", FALSE, 1, 0)
S_04    == Str("num", FALSE, 4, 1)
S_05    == Str("num", FALSE, 5, 1)
S_001   == Str("num", FALSE, 1, 2)
S_1x    == Str("junk", FALSE, 1, 0)
S_neg1  == Str("num", TRUE, 1, 0)

AmountInputs == {S_empty, S_0, S_1, S_04, S_05, S_1x, S_neg1}
PriceInputs  == {S_empty, S_0, S_001, S_1, S_neg1}

\* Address strings: "" (nothing typed), "bad" (not base58 of 32 bytes),
\* "K1" and "K2" (two distinct well formed public keys).
AddressInputs == {"", "bad", "K1", "K2"}

\* A JavaScript number: NaN, or (-1)^neg * m * 10^(-e).
NaN == [nan |-> TRUE, neg |-> FALSE, m |-> 0, e |-> 0]
Num(neg, m, e) == [nan |-> FALSE, neg |-> neg, m |-> m, e |-> e]

RECURSIVE Pow10(_)
Pow10(k) == IF k = 0 THEN 1 ELSE 10 * Pow10(k - 1)

\* parseFloat(s): the longest numeric prefix, NaN if there is none.
parseFloat(s) == IF s.kind \in {"num", "junk"} THEN Num(s.neg, s.m, s.e) ELSE NaN

\* Number(s) as yup.number() casts a string: the whole string must be a
\* number; "" and "1x" give NaN.
castNumber(s) == IF s.kind = "num" THEN Num(s.neg, s.m, s.e) ELSE NaN

\* s || '0'
OrZero(s) == IF s.kind = "empty" THEN S_0 ELSE s

\* Comparisons of a JavaScript number with 0 (all false on NaN).
GtZero(v) == ~v.nan /\ ~v.neg /\ v.m > 0
GeZero(v) == ~v.nan /\ (~v.neg \/ v.m = 0)
EqZero(v) == ~v.nan /\ v.m = 0
\* if (v): neither NaN nor 0
Truthy(v) == ~v.nan /\ v.m # 0
\* v >= 10^(-k)
GeTenth(v, k) == GtZero(v) /\ (v.e <= k \/ v.m >= Pow10(v.e - k))

\* new Decimal(s) throws unless s is a well formed literal.
DecimalParses(s) == s.kind = "num"
\* Decimal.isPositive(): the sign is +, which holds of +0 as well.
DecimalIsPositive(s) == ~s.neg

\* new PublicKey(s) succeeds.
validatePubkey(s) == s \in {"K1", "K2"}

\* ------------------------------------------------------------ catalogue
\* One record per form component.  Fields:
\*   resets    getInstruction starts with setFormErrors({})
\*   guard     "early": if (!isValid || !governedAccount... || !wallet?.publicKey
\*             ...) return {serializedInstruction: '', isValid: false}
\*             "block": if (isValid && governedAccount... && wallet?.publicKey)
\*             {build}; return {serializedInstruction, isValid}
\*   needs     what the guard checks besides isValid, the governed account
\*             and wallet.publicKey: "transfer" (extensions.transferAddress),
\*             "conn" (connection.current)
\*   guardMsg  messages set when the early guard fails: "none", "merge"
\*             (setFormErrors(prev => ...)), "replace" (setFormErrors({...}))
\*   onThrow   an exception in the body: "reject" (no try, or catch that
\*             rethrows), "setError" (catch sets formErrors and returns
\*             invalid), "silent" (catch returns invalid, sets nothing),
\*             "swallow" (catch logs and the body carries on)
\*   config    argument of setWhirlpoolsConfig, "none" if not called;
\*             configInTry tells whether that call is inside the try
\*   sdk       the body calls the SDK or the RPC node
\*   usesConn  the body dereferences connection.current
\*   layout    how the built instructions are returned (see Layout)
\*   ixMin     least number of instructions the builder yields; ixFixed if
\*             the component assembles exactly ixMin instructions itself
\*   addrA/B   schema rule of the address fields, notSame the A # B rule
\*   amounts   schema rule of the token amount fields
\*   price     schema rule of the initial price field
\*   param     how the amounts are converted and handed to the SDK

\* ClosePosition.tsx: positionMint is string().required() only.
ClosePosition_tsx ==
  [ resets |-> FALSE, guard |-> "block", needs |-> {}, guardMsg |-> "none",
    onThrow |-> "reject", config |-> "solanaDevnet", configInTry |-> FALSE,
    sdk |-> TRUE, usesConn |-> FALSE, layout |-> "firstIfAny",
    ixMin |-> 0, ixFixed |-> FALSE,
    addrA |-> "required", addrB |-> "none", notSame |-> FALSE,
    amounts |-> "none", price |-> "none", param |-> "none" ]

\* CreateSplashPool.tsx: builds the initializePool instruction itself; the
\* catch logs and rethrows.
CreateSplashPool_tsx ==
  [ resets |-> FALSE, guard |-> "block", needs |-> {}, guardMsg |-> "none",
    onThrow |-> "reject", config |-> "none", configInTry |-> FALSE,
    sdk |-> TRUE, usesConn |-> FALSE, layout |-> "first",
    ixMin |-> 1, ixFixed |-> TRUE,
    addrA |-> "pubkey", addrB |-> "pubkey", notSame |-> FALSE,
    amounts |-> "none", price |-> "min", param |-> "none" ]

\* CreatePosition.tsx (legacy SDK).
CreatePosition_tsx ==
  [ resets |-> TRUE, guard |-> "early", needs |-> {"conn"}, guardMsg |-> "none",
    onThrow |-> "setError", config |-> "none", configInTry |-> FALSE,
    sdk |-> TRUE, usesConn |-> TRUE, layout |-> "additional",
    ixMin |-> 1, ixFixed |-> FALSE,
    addrA |-> "pubkey", addrB |-> "none", notSame |-> FALSE,
    amounts |-> "atLeastOne", price |-> "none", param |-> "estimate" ]

\* AddLiquidity.tsx, first component (new SDK).
AddLiquidity_tsx_1 ==
  [ resets |-> TRUE, guard |-> "early", needs |-> {"transfer", "conn"},
    guardMsg |-> "merge",
    onThrow |-> "setError", config |-> "solanaMainnet", configInTry |-> TRUE,
    sdk |-> TRUE, usesConn |-> TRUE, layout |-> "additional",
    ixMin |-> 0, ixFixed |-> FALSE,
    addrA |-> "pubkey", addrB |-> "none", notSame |-> FALSE,
    amounts |-> "atLeastOne", price |-> "none", param |-> "bigintBoth" ]

\* AddLiquidity.tsx, second component (legacy SDK).
AddLiquidity_tsx_2 ==
  [ resets |-> TRUE, guard |-> "early", needs |-> {"transfer", "conn"},
    guardMsg |-> "none",
    onThrow |-> "setError", config |-> "none", configInTry |-> FALSE,
    sdk |-> TRUE, usesConn |-> TRUE, layout |-> "additional",
    ixMin |-> 1, ixFixed |-> FALSE,
    addrA |-> "pubkey", addrB |-> "none", notSame |-> FALSE,
    amounts |-> "atLeastOne", price |-> "none", param |-> "estimate" ]

\* CreatePool.tsx: initialPrice is tested with Decimal.isPositive().
CreatePool_tsx ==
  [ resets |-> TRUE, guard |-> "early", needs |-> {"conn"}, guardMsg |-> "merge",
    onThrow |-> "setError", config |-> "solanaMainnet", configInTry |-> TRUE,
    sdk |-> TRUE, usesConn |-> TRUE, layout |-> "additional",
    ixMin |-> 0, ixFixed |-> FALSE,
    addrA |-> "pubkey", addrB |-> "pubkey", notSame |-> TRUE,
    amounts |-> "none", price |-> "decimalIsPositive", param |-> "none" ]

\* OrcaCreateSplashPool.tsx, first component: instructions[0] alone is
\* serialized; initialPrice is string().required() only.
OrcaCreateSplashPool_tsx_1 ==
  [ resets |-> FALSE, guard |-> "early", needs |-> {}, guardMsg |-> "none",
    onThrow |-> "setError", config |-> "none", configInTry |-> FALSE,
    sdk |-> TRUE, usesConn |-> TRUE, layout |-> "first",
    ixMin |-> 0, ixFixed |-> FALSE,
    addrA |-> "asset", addrB |-> "asset", notSame |-> FALSE,
    amounts |-> "none", price |-> "required", param |-> "none" ]

\* OrcaCreateSplashPool.tsx, second component: the catch only logs.
OrcaCreateSplashPool_tsx_2 ==
  [ resets |-> FALSE, guard |-> "early", needs |-> {}, guardMsg |-> "none",
    onThrow |-> "silent", config |-> "none", configInTry |-> FALSE,
    sdk |-> TRUE, usesConn |-> TRUE, layout |-> "firstAndRest",
    ixMin |-> 0, ixFixed |-> FALSE,
    addrA |-> "asset", addrB |-> "asset", notSame |-> TRUE,
    amounts |-> "none", price |-> "min", param |-> "none" ]

\* QueryPoolStats.tsx: returns a no-op instruction.
QueryPoolStats_tsx ==
  [ resets |-> FALSE, guard |-> "block", needs |-> {}, guardMsg |-> "none",
    onThrow |-> "reject", config |-> "solanaDevnet", configInTry |-> FALSE,
    sdk |-> TRUE, usesConn |-> FALSE, layout |-> "first",
    ixMin |-> 1, ixFixed |-> TRUE,
    addrA |-> "required", addrB |-> "required", notSame |-> FALSE,
    amounts |-> "none", price |-> "none", param |-> "none" ]

\* RemoveLiquidity.tsx (new SDK).
RemoveLiquidity_tsx ==
  [ resets |-> TRUE, guard |-> "early", needs |-> {"transfer", "conn"},
    guardMsg |-> "merge",
    onThrow |-> "setError", config |-> "solanaMainnet", configInTry |-> TRUE,
    sdk |-> TRUE, usesConn |-> TRUE, layout |-> "additional",
    ixMin |-> 0, ixFixed |-> FALSE,
    addrA |-> "pubkey", addrB |-> "none", notSame |-> FALSE,
    amounts |-> "exactlyOne", price |-> "none", param |-> "bigintEither" ]

\* OpenPositionAddLiquidity.tsx: one amount and a token side; the catch only
\* logs.  It assembles openPosition and increaseLiquidity itself.
OpenPositionAddLiquidity_tsx ==
  [ resets |-> FALSE, guard |-> "early", needs |-> {},
    guardMsg |-> "none",
    onThrow |-> "silent", config |-> "none", configInTry |-> FALSE,
    sdk |-> TRUE, usesConn |-> TRUE, layout |-> "firstAndRest",
    ixMin |-> 2, ixFixed |-> TRUE,
    addrA |-> "pubkey", addrB |-> "none", notSame |-> FALSE,
    amounts |-> "single", price |-> "none", param |-> "decimal" ]

\* CollectFees.tsx, first component (new SDK).
CollectFees_tsx_1 ==
  [ resets |-> TRUE, guard |-> "early", needs |-> {"transfer", "conn"},
    guardMsg |-> "merge",
    onThrow |-> "setError", config |-> "solanaMainnet", configInTry |-> TRUE,
    sdk |-> TRUE, usesConn |-> TRUE, layout |-> "additional",
    ixMin |-> 0, ixFixed |-> FALSE,
    addrA |-> "pubkey", addrB |-> "none", notSame |-> FALSE,
    amounts |-> "none", price |-> "none", param |-> "none" ]

\* CollectFees.tsx, second component (legacy SDK).
CollectFees_tsx_2 ==
  [ resets |-> TRUE, guard |-> "early", needs |-> {"transfer", "conn"},
    guardMsg |-> "none",
    onThrow |-> "setError", config |-> "none", configInTry |-> FALSE,
    sdk |-> TRUE, usesConn |-> TRUE, layout |-> "additional",
    ixMin |-> 1, ixFixed |-> FALSE,
    addrA |-> "pubkey", addrB |-> "none", notSame |-> FALSE,
    amounts |-> "none", price |-> "none", param |-> "none" ]

\* unnamed/part_000: splash pool from two asset selects; the catch rethrows.
part_000 ==
  [ resets |-> FALSE, guard |-> "block", needs |-> {},
    guardMsg |-> "none",
    onThrow |-> "reject", config |-> "none", configInTry |-> FALSE,
    sdk |-> TRUE, usesConn |-> FALSE, layout |-> "firstAndRest",
    ixMin |-> 2, ixFixed |-> TRUE,
    addrA |-> "asset", addrB |-> "asset", notSame |-> TRUE,
    amounts |-> "none", price |-> "min", param |-> "none" ]

\* unnamed/part_001, first component: BigInt(form.tokenA) when truthy.
part_001_1 ==
  [ resets |-> FALSE, guard |-> "block", needs |-> {},
    guardMsg |-> "none",
    onThrow |-> "reject", config |-> "solanaDevnet", configInTry |-> FALSE,
    sdk |-> TRUE, usesConn |-> FALSE, layout |-> "firstIfAny",
    ixMin |-> 0, ixFixed |-> FALSE,
    addrA |-> "required", addrB |-> "none", notSame |-> FALSE,
    amounts |-> "min0", price |-> "none", param |-> "rawTruthy" ]

\* unnamed/part_001, second component: returns the whole serialized
\* transaction as serializedInstruction.
part_001_2 ==
  [ resets |-> TRUE, guard |-> "early", needs |-> {"transfer", "conn"},
    guardMsg |-> "none",
    onThrow |-> "setError", config |-> "none", configInTry |-> FALSE,
    sdk |-> TRUE, usesConn |-> TRUE, layout |-> "wholeTx",
    ixMin |-> 1, ixFixed |-> FALSE,
    addrA |-> "pubkey", addrB |-> "none", notSame |-> FALSE,
    amounts |-> "exactlyOne", price |-> "none", param |-> "estimate" ]

\* unnamed/part_001, third component (new SDK).
part_001_3 ==
  [ resets |-> TRUE, guard |-> "early", needs |-> {"transfer", "conn"},
    guardMsg |-> "merge",
    onThrow |-> "setError", config |-> "solanaMainnet", configInTry |-> TRUE,
    sdk |-> TRUE, usesConn |-> TRUE, layout |-> "additional",
    ixMin |-> 0, ixFixed |-> FALSE,
    addrA |-> "pubkey", addrB |-> "none", notSame |-> FALSE,
    amounts |-> "notBoth", price |-> "none", param |-> "bigintEither" ]

\* unnamed/part_002, first component: BigInt(form.tokenA), BigInt(form.tokenB).
part_002_1 ==
  [ resets |-> FALSE, guard |-> "block", needs |-> {},
    guardMsg |-> "none",
    onThrow |-> "reject", config |-> "solanaMainnet", configInTry |-> FALSE,
    sdk |-> TRUE, usesConn |-> FALSE, layout |-> "firstIfAny",
    ixMin |-> 0, ixFixed |-> FALSE,
    addrA |-> "required", addrB |-> "none", notSame |-> FALSE,
    amounts |-> "min0", price |-> "none", param |-> "rawBoth" ]

\* unnamed/part_002, second component (legacy SDK).
part_002_2 ==
  [ resets |-> TRUE, guard |-> "early", needs |-> {"transfer", "conn"},
    guardMsg |-> "none",
    onThrow |-> "setError", config |-> "none", configInTry |-> FALSE,
    sdk |-> TRUE, usesConn |-> TRUE, layout |-> "additional",
    ixMin |-> 1, ixFixed |-> FALSE,
    addrA |-> "pubkey", addrB |-> "none", notSame |-> FALSE,
    amounts |-> "atLeastOne", price |-> "none", param |-> "estimate" ]

\* unnamed/part_003: splash pool; the price field is string().required() only;
\* the catch only logs.
part_003 ==
  [ resets |-> FALSE, guard |-> "early", needs |-> {},
    guardMsg |-> "none",
    onThrow |-> "silent", config |-> "none", configInTry |-> FALSE,
    sdk |-> TRUE, usesConn |-> TRUE, layout |-> "first",
    ixMin |-> 0, ixFixed |-> FALSE,
    addrA |-> "pubkey", addrB |-> "pubkey", notSame |-> FALSE,
    amounts |-> "none", price |-> "required", param |-> "none" ]

\* unnamed/part_004: swap simulation; the quote error is logged and a no-op
\* instruction is returned all the same.
part_004 ==
  [ resets |-> FALSE, guard |-> "block", needs |-> {},
    guardMsg |-> "none",
    onThrow |-> "swallow", config |-> "solanaDevnet", configInTry |-> FALSE,
    sdk |-> TRUE, usesConn |-> FALSE, layout |-> "first",
    ixMin |-> 1, ixFixed |-> TRUE,
    addrA |-> "required", addrB |-> "required", notSame |-> FALSE,
    amounts |-> "single", price |-> "none", param |-> "rawSingle" ]

\* unnamed/part_005: BigInt(form.tokenAAmount).
part_005 ==
  [ resets |-> FALSE, guard |-> "block", needs |-> {},
    guardMsg |-> "none",
    onThrow |-> "reject", config |-> "solanaMainnet", configInTry |-> FALSE,
    sdk |-> TRUE, usesConn |-> FALSE, layout |-> "firstIfAny",
    ixMin |-> 0, ixFixed |-> FALSE,
    addrA |-> "required", addrB |-> "none", notSame |-> FALSE,
    amounts |-> "aPositive", price |-> "none", param |-> "rawA" ]

\* unnamed/part_006: pool creation, initialPrice number().positive().
part_006 ==
  [ resets |-> FALSE, guard |-> "block", needs |-> {},
    guardMsg |-> "none",
    onThrow |-> "reject", config |-> "solanaMainnet", configInTry |-> FALSE,
    sdk |-> TRUE, usesConn |-> FALSE, layout |-> "firstIfAny",
    ixMin |-> 0, ixFixed |-> FALSE,
    addrA |-> "required", addrB |-> "required", notSame |-> FALSE,
    amounts |-> "none", price |-> "positive", param |-> "none" ]

\* unnamed/part_007: RemoveLiquidity (legacy SDK).
part_007 ==
  [ resets |-> TRUE, guard |-> "early", needs |-> {"transfer", "conn"},
    guardMsg |-> "none",
    onThrow |-> "setError", config |-> "none", configInTry |-> FALSE,
    sdk |-> TRUE, usesConn |-> TRUE, layout |-> "additional",
    ixMin |-> 1, ixFixed |-> FALSE,
    addrA |-> "pubkey", addrB |-> "none", notSame |-> FALSE,
    amounts |-> "exactlyOne", price |-> "none", param |-> "estimate" ]

\* unnamed/part_008: fee update placeholder, a no-op instruction, no SDK call.
part_008 ==
  [ resets |-> FALSE, guard |-> "block", needs |-> {},
    guardMsg |-> "none",
    onThrow |-> "reject", config |-> "none", configInTry |-> FALSE,
    sdk |-> FALSE, usesConn |-> FALSE, layout |-> "first",
    ixMin |-> 1, ixFixed |-> TRUE,
    addrA |-> "required", addrB |-> "none", notSame |-> FALSE,
    amounts |-> "none", price |-> "none", param |-> "none" ]

\* unnamed/part_009: ClosePosition (new SDK); the guard messages replace
\* formErrors.
part_009 ==
  [ resets |-> TRUE, guard |-> "early", needs |-> {"transfer", "conn"},
    guardMsg |-> "replace",
    onThrow |-> "setError", config |-> "solanaMainnet", configInTry |-> TRUE,
    sdk |-> TRUE, usesConn |-> TRUE, layout |-> "additional",
    ixMin |-> 0, ixFixed |-> FALSE,
    addrA |-> "pubkey", addrB |-> "none", notSame |-> FALSE,
    amounts |-> "none", price |-> "none", param |-> "none" ]

\* unnamed/part_010: ClosePosition (legacy SDK).
part_010 ==
  [ resets |-> TRUE, guard |-> "early", needs |-> {"transfer", "conn"},
    guardMsg |-> "none",
    onThrow |-> "setError", config |-> "none", configInTry |-> FALSE,
    sdk |-> TRUE, usesConn |-> TRUE, layout |-> "additional",
    ixMin |-> 1, ixFixed |-> FALSE,
    addrA |-> "pubkey", addrB |-> "none", notSame |-> FALSE,
    amounts |-> "none", price |-> "none", param |-> "none" ]

\* Mango/MangoV4/AltExtend.tsx: addressLookupTable is tested with
\* validatePubkey, the publicKeys list is string().required() only.
AltExtend_tsx ==
  [ resets |-> FALSE, guard |-> "block", needs |-> {},
    guardMsg |-> "none",
    onThrow |-> "reject", config |-> "none", configInTry |-> FALSE,
    sdk |-> TRUE, usesConn |-> FALSE, layout |-> "first",
    ixMin |-> 1, ixFixed |-> TRUE,
    addrA |-> "pubkey", addrB |-> "required", notSame |-> FALSE,
    amounts |-> "none", price |-> "none", param |-> "none" ]

Components ==
  { "ClosePosition.tsx", "CreateSplashPool.tsx", "CreatePosition.tsx",
    "AddLiquidity.tsx#1", "AddLiquidity.tsx#2", "CreatePool.tsx",
    "OrcaCreateSplashPool.tsx#1", "OrcaCreateSplashPool.tsx#2",
    "QueryPoolStats.tsx", "RemoveLiquidity.tsx", "OpenPositionAddLiquidity.tsx",
    "CollectFees.tsx#1", "CollectFees.tsx#2", "part_000", "part_001#1",
    "part_001#2", "part_001#3", "part_002#1", "part_002#2", "part_003",
    "part_004", "part_005", "part_006", "part_007", "part_008", "part_009",
    "part_010", "AltExtend.tsx" }

Cat(c) ==
  CASE c = "ClosePosition.tsx" -> ClosePosition_tsx
    [] c = "CreateSplashPool.tsx" -> CreateSplashPool_tsx
    [] c = "CreatePosition.tsx" -> CreatePosition_tsx
    [] c = "AddLiquidity.tsx#1" -> AddLiquidity_tsx_1
    [] c = "AddLiquidity.tsx#2" -> AddLiquidity_tsx_2
    [] c = "CreatePool.tsx" -> CreatePool_tsx
    [] c = "OrcaCreateSplashPool.tsx#1" -> OrcaCreateSplashPool_tsx_1
    [] c = "OrcaCreateSplashPool.tsx#2" -> OrcaCreateSplashPool_tsx_2
    [] c = "QueryPoolStats.tsx" -> QueryPoolStats_tsx
    [] c = "RemoveLiquidity.tsx" -> RemoveLiquidity_tsx
    [] c = "OpenPositionAddLiquidity.tsx" -> OpenPositionAddLiquidity_tsx
    [] c = "CollectFees.tsx#1" -> CollectFees_tsx_1
    [] c = "CollectFees.tsx#2" -> CollectFees_tsx_2
    [] c = "part_000" -> part_000
    [] c = "part_001#1" -> part_001_1
    [] c = "part_001#2" -> part_001_2
    [] c = "part_001#3" -> part_001_3
    [] c = "part_002#1" -> part_002_1
    [] c = "part_002#2" -> part_002_2
    [] c = "part_003" -> part_003
    [] c = "part_004" -> part_004
    [] c = "part_005" -> part_005
    [] c = "part_006" -> part_006
    [] c = "part_007" -> part_007
    [] c = "part_008" -> part_008
    [] c = "part_009" -> part_009
    [] c = "part_010" -> part_010
    [] c = "AltExtend.tsx" -> AltExtend_tsx

\* ------------------------------------------------------------------ state
VARIABLES
  comp,        \* the mounted form component
  wallet,      \* wallet?.publicKey is set (the wallet is connected)
  conn,        \* connection.current is set
  form,        \* useState form
  formErrors,  \* useState formErrors: the set of keys that carry a message
  pc,          \* where the current getInstruction call stands
  isValid,     \* its local isValid
  sdkLog,      \* SDK / RPC calls it has made, in order
  handed,      \* the token amounts it handed to the SDK builder
  prerequisites, \* prerequisiteInstructions and prerequisiteInstructionsSigners
               \* of the returned object (how many each holds)
  run,         \* how its body went: what failed at the SDK, whether an
               \* exception was thrown, how many instructions were built
  result,      \* what the call returned
  previousErrors, \* formErrors as earlier calls had left them when the
               \* current getInstruction call began
  registered,  \* what the component has handed to the proposal context at
               \* its index: governedAccount, and getInstruction with the
               \* form its closure reads
  whirlpoolsConfig, \* the SDK module's configuration, set by
               \* setWhirlpoolsConfig: one for the whole page
  position,    \* the tick range of the position a getInstruction body is
               \* opening: the pool's tick spacing, the two tick indexes
               \* and how far the body has got with them
  instances,   \* the form instances mounted side by side on the proposal
               \* page, each with its component and where its
               \* getInstruction call stands
  closing,     \* the position the legacy ClosePosition body has fetched
               \* (its liquidity, the pool's rewardInfos, which token
               \* accounts are missing) and what the body returned for it
  liq,         \* the liquidity change a legacy-SDK body is working out: the
               \* token amounts of the form, the liquidity the position
               \* holds, what the SDK estimated and quoted, and the
               \* arguments of the instruction it built
  atas,        \* the token accounts a legacy-SDK body looks up: the pool's
               \* reward mints, the funder, the associated token accounts
               \* that exist on chain, and the create instructions it built
  call         \* a getInstruction call of RemoveLiquidity awaiting the
               \* network while the user edits: the form in React state,
               \* the `form` its closure is bound to, how far it has got,
               \* and the form values it has used

\* The state of one form instance,
formVars == <<comp, wallet, conn, form, formErrors, pc, isValid, sdkLog, handed,
              prerequisites, run, result, previousErrors, registered>>
\* and of several instances sharing the SDK module.
pageVars == <<whirlpoolsConfig, instances>>
\* A getInstruction body at work on the tick range of a new position.
tickVars == <<position>>
\* The legacy ClosePosition body at work on a fetched position.
closeVars == <<closing>>
\* A legacy-SDK body working out a liquidity change.
liqVars == <<liq>>
\* A legacy-SDK body looking up associated token accounts.
ataVars == <<atas>>
\* A getInstruction call running while the form is edited.
editVars == <<call>>
\* What a single form's getInstruction, taken as a whole, leaves alone.
sideVars == <<pageVars, tickVars, closeVars, liqVars, ataVars, editVars>>
vars == <<formVars, pageVars, tickVars, closeVars, liqVars, ataVars, editVars>>

\* The empty string, and the base64 text of instruction number i of the
\* built list.
EmptyString == <<>>
serializeInstructionToBase64(i) == <<"base64", i>>

NoResult == [returned |-> FALSE, isValid |-> FALSE,
             serializedInstruction |-> EmptyString,
             additionalSerializedInstructions |-> <<>>]
UiInstruction(ser, valid, additional) ==
  [returned |-> TRUE, isValid |-> valid, serializedInstruction |-> ser,
   additionalSerializedInstructions |-> additional]

NotRun == [fault |-> "none", threw |-> FALSE, n |-> 0]
Ran(fault, threw, n) == [fault |-> fault, threw |-> threw, n |-> IF threw THEN 0 ELSE n]

NothingHanded == [hasA |-> FALSE, a |-> 0, hasB |-> FALSE, b |-> 0,
                  decA |-> 0, decB |-> 0]

\* ------------------------------------------------------------ the form
\* Fields the component's form has.  Slippage, price range, tick spacing
\* and the mode switches stay at their (valid) initial values.
Fields(c) ==
  {"governedAccount"}
    \cup (IF Cat(c).addrA # "none" THEN {"addrA"} ELSE {})
    \cup (IF Cat(c).addrB # "none" THEN {"addrB"} ELSE {})
    \cup (IF Cat(c).amounts # "none" THEN {"amtA"} ELSE {})
    \cup (IF Cat(c).amounts \notin {"none", "single"} THEN {"amtB"} ELSE {})
    \cup (IF Cat(c).price # "none" THEN {"price"} ELSE {})

AddressValues(rule, two) ==
  IF rule = "asset" THEN {"", "K1", "K2"}    \* a select: nothing or an asset
  ELSE IF two THEN AddressInputs ELSE AddressInputs \ {"K2"}

FieldValues(c, f) ==
  CASE f = "governedAccount" -> {"none", "noTransfer", "ok"}
    [] f = "addrA" -> AddressValues(Cat(c).addrA, Cat(c).addrB # "none")
    [] f = "addrB" -> AddressValues(Cat(c).addrB, TRUE)
    [] f \in {"amtA", "amtB"} -> AmountInputs
    [] f = "price" -> PriceInputs

\* useState's initial form.
InitialForm(c) ==
  [ governedAccount |-> "none", addrA |-> "", addrB |-> "",
    amtA |-> S_0, amtB |-> S_0,
    price |-> CASE Cat(c).price \in {"positive", "decimalIsPositive"} -> S_001
                [] Cat(c).price = "required" -> S_empty
                [] OTHER -> S_0 ]

\* ---------------------------------------------------------- yup schemas
\* initialPrice: yup.number().required().min(0.000001): 10^(-MinPriceDigits).
MinPriceDigits == 6

\* An address field.  "pubkey": string().required() and a test that
\* new PublicKey(value) succeeds; "required": string().required() alone;
\* "asset": object().nullable().required().
AddressAccepted(rule, v) ==
  CASE rule = "pubkey" -> v # "" /\ validatePubkey(v)
    [] rule = "required" -> v # ""
    [] rule = "asset" -> v # ""
    [] OTHER -> TRUE

\* tokenB 'not-same-as-A'.  CreatePool.tsx compares the two strings; the
\* asset selects compare the two assets' keys when both are chosen.
NotSameAccepted(c, a, b) ==
  IF ~Cat(c).notSame THEN TRUE
  ELSE IF Cat(c).addrB = "asset" THEN a = "" \/ b = "" \/ a # b
  ELSE a # b

\* One string amount field: .test('is-positive-or-zero', (val) => !val ||
\* !isNaN(parseFloat(val)) && parseFloat(val) >= 0).required().
isPositiveOrZero(s) == s.kind # "empty" /\ GeZero(parseFloat(s))

\* tokenAmounts / tokenInputLogic 'at-least-one-positive'.
atLeastOnePositive(sa, sb) ==
  LET amountA == parseFloat(OrZero(sa))
      amountB == parseFloat(OrZero(sb))
  IN  GtZero(amountA) \/ GtZero(amountB)

\* tokenInputLogic 'exactly-one-token-amount-provided'.
exactlyOneTokenAmountProvided(sa, sb) ==
  LET amountA == parseFloat(OrZero(sa))
      amountB == parseFloat(OrZero(sb))
  IN  (GtZero(amountA) /\ EqZero(amountB)) \/ (EqZero(amountA) /\ GtZero(amountB))

\* tokenInputLogic 'one-token-amount-provided'.
oneTokenAmountProvided(sa, sb) ==
  LET amountA == parseFloat(OrZero(sa))
      amountB == parseFloat(OrZero(sb))
  IN  \/ (EqZero(amountA) /\ EqZero(amountB))
      \/ (GtZero(amountA) /\ EqZero(amountB))
      \/ (EqZero(amountA) /\ GtZero(amountB))

\* The keys of the amount fields the schema rejects.
AmountErrors(rule, sa, sb) ==
  CASE rule \in {"atLeastOne", "exactlyOne", "notBoth"} ->
         (IF isPositiveOrZero(sa) THEN {} ELSE {"tokenAAmount"})
           \cup (IF isPositiveOrZero(sb) THEN {} ELSE {"tokenBAmount"})
           \cup (IF CASE rule = "atLeastOne" -> atLeastOnePositive(sa, sb)
                      [] rule = "exactlyOne" -> exactlyOneTokenAmountProvided(sa, sb)
                      [] rule = "notBoth" -> oneTokenAmountProvided(sa, sb)
                 THEN {} ELSE {"tokenInputLogic"})
    \* tokenA: yup.number().min(0), tokenB: yup.number().min(0)
    [] rule = "min0" ->
         (IF GeZero(castNumber(sa)) THEN {} ELSE {"tokenAAmount"})
           \cup (IF GeZero(castNumber(sb)) THEN {} ELSE {"tokenBAmount"})
    \* tokenAAmount: yup.number().positive().required(); tokenBAmount is
    \* not in the schema
    [] rule = "aPositive" ->
         IF GtZero(castNumber(sa)) THEN {} ELSE {"tokenAAmount"}
    \* one amount: yup.number().positive() / .moreThan(0)
    [] rule = "single" ->
         IF GtZero(castNumber(sa)) THEN {} ELSE {"tokenAAmount"}
    [] OTHER -> {}

\* The initial price field.
PriceAccepted(rule, s) ==
  CASE rule = "min" -> GeTenth(castNumber(s), MinPriceDigits)
    [] rule = "positive" -> GtZero(castNumber(s))
    \* .required().test('is-positive', (val) => { try { return new
    \* Decimal(val || '0').isPositive() } catch { return false } })
    [] rule = "decimalIsPositive" ->
         s.kind # "empty" /\ DecimalParses(s) /\ DecimalIsPositive(s)
    [] rule = "required" -> s.kind # "empty"
    [] OTHER -> TRUE

\* isFormValid(schema, form).validationErrors: every failing field's key
\* (abortEarly: false).
validationErrors(c, f) ==
  (IF f.governedAccount = "none" THEN {"governedAccount"} ELSE {})
    \cup (IF AddressAccepted(Cat(c).addrA, f.addrA) THEN {} ELSE {"addrA"})
    \cup (IF AddressAccepted(Cat(c).addrB, f.addrB)
             /\ NotSameAccepted(c, f.addrA, f.addrB) THEN {} ELSE {"addrB"})
    \cup AmountErrors(Cat(c).amounts, f.amtA, f.amtB)
    \cup (IF PriceAccepted(Cat(c).price, f.price) THEN {} ELSE {"initialPrice"})

\* isFormValid(schema, form).isValid
isFormValid(c, f) == validationErrors(c, f) = {}

\* ------------------------------------------------------ amount conversion
\* A number is an integer (BigInt(v) throws a RangeError otherwise).
IsInteger(v) == ~v.nan /\ v.m % Pow10(v.e) = 0
\* BigInt(v) of an integer number.
BigInt(v) == IF v.neg THEN 0 - (v.m \div Pow10(v.e)) ELSE v.m \div Pow10(v.e)

\* decimalAmount.mul(new Decimal(10).pow(decimals)).toFixed(0): the amount
\* in base units, rounded half up to an integer.
decimalAmountToBN(s, decimals) ==
  LET mag == IF decimals >= s.e
             THEN s.m * Pow10(decimals - s.e)
             ELSE (2 * s.m + Pow10(s.e - decimals)) \div (2 * Pow10(s.e - decimals))
  IN  IF s.neg THEN 0 - mag ELSE mag

\* uiAmountToDecimal: try { return new Decimal(amount) } catch { return
\* new Decimal(0) }
uiAmountToDecimal(s) == IF DecimalParses(s) THEN s ELSE S_0

\* uiAmountToBigInt(connection, amount, mint): new Decimal(amount || '0')
\* times 10^decimals of the fetched mint, toFixed(0); it throws when the
\* text is no decimal literal.
uiAmountToBigIntThrows(s) == ~DecimalParses(OrZero(s))
uiAmountToBigInt(s, decimals) == decimalAmountToBN(OrZero(s), decimals)

Handed(hasA, a, hasB, b, decA, decB) ==
  [hasA |-> hasA, a |-> a, hasB |-> hasB, b |-> b, decA |-> decA, decB |-> decB]

\* The SDK parameter a component assembles from the two amount fields:
\* whether assembling it throws, and the amounts it holds.
Param(c, f, decA, decB) ==
  LET sa == f.amtA
      sb == f.amtB
      na == castNumber(sa)
      nb == castNumber(sb)
      pa == GtZero(parseFloat(OrZero(sa)))
      pb == GtZero(parseFloat(OrZero(sb)))
      style == Cat(c).param
  IN
  CASE \* { tokenA: BigInt(form.tokenAAmount) }
       style = "rawA" ->
         [throws |-> ~IsInteger(na),
          handed |-> Handed(TRUE, BigInt(na), FALSE, 0, decA, decB)]
       \* if (form.tokenB === 0) throw; { tokenA: BigInt(form.tokenA),
       \* tokenB: BigInt(form.tokenB) }
    [] style = "rawBoth" ->
         [throws |-> EqZero(nb) \/ ~IsInteger(na) \/ ~IsInteger(nb),
          handed |-> Handed(TRUE, BigInt(na), TRUE, BigInt(nb), decA, decB)]
       \* if (form.tokenA) param.tokenA = BigInt(form.tokenA); same for B
    [] style = "rawTruthy" ->
         [throws |-> (Truthy(na) /\ ~IsInteger(na)) \/ (Truthy(nb) /\ ~IsInteger(nb)),
          handed |-> Handed(Truthy(na), BigInt(na), Truthy(nb), BigInt(nb), decA, decB)]
       \* amountIn: BigInt(form.amountIn)
    [] style = "rawSingle" ->
         [throws |-> ~IsInteger(na),
          handed |-> Handed(TRUE, BigInt(na), FALSE, 0, decA, decB)]
       \* if (amountA > 0) param.tokenA = await uiAmountToBigInt(...);
       \* if (amountB > 0) param.tokenB = ...;
       \* if (!param.tokenA && !param.tokenB) throw
    [] style = "bigintBoth" ->
         LET a == IF pa THEN uiAmountToBigInt(sa, decA) ELSE 0
             b == IF pb THEN uiAmountToBigInt(sb, decB) ELSE 0
         IN  [throws |-> \/ (pa /\ uiAmountToBigIntThrows(sa))
                         \/ (pb /\ uiAmountToBigIntThrows(sb))
                         \/ (a = 0 /\ b = 0),
              handed |-> Handed(pa, a, pb, b, decA, decB)]
       \* if (amountA > 0) param.tokenA = ...; else if (amountB > 0)
       \* param.tokenB = ...; else throw
    [] style = "bigintEither" ->
         [throws |-> \/ (pa /\ uiAmountToBigIntThrows(sa))
                     \/ (~pa /\ pb /\ uiAmountToBigIntThrows(sb))
                     \/ (~pa /\ ~pb),
          handed |-> Handed(pa, IF pa THEN uiAmountToBigInt(sa, decA) ELSE 0,
                            ~pa /\ pb,
                            IF ~pa /\ pb THEN uiAmountToBigInt(sb, decB) ELSE 0,
                            decA, decB)]
       \* amountA_BN = decimalAmountToBN(uiAmountToDecimal(form.tokenAAmount),
       \* decimalsA), same for B; both go to the liquidity estimate, and a
       \* zero estimate throws
    [] style = "estimate" ->
         LET a == decimalAmountToBN(uiAmountToDecimal(sa), decA)
             b == decimalAmountToBN(uiAmountToDecimal(sb), decB)
         IN  [throws |-> a = 0 /\ b = 0,
              handed |-> Handed(TRUE, a, TRUE, b, decA, decB)]
       \* "decimal": new Decimal(form.tokenAmount) goes to the SDK's quote,
       \* which scales it itself; "none": no amounts
    [] OTHER -> [throws |-> FALSE, handed |-> NothingHanded]

\* ------------------------------------------------------- getInstruction
\* A guard that forgets wallet.publicKey.
RefsPresent_NoWallet(c, f, w, cn) ==
  /\ f.governedAccount # "none"
  /\ ("transfer" \in Cat(c).needs => f.governedAccount = "ok")
  /\ ("conn" \in Cat(c).needs => cn)

\* The references the guard wants besides isValid: the governed account's
\* governance account, wallet.publicKey and, per component, the governed
\* account's transferAddress and connection.current.
RefsPresent(c, f, w, cn) ==
  /\ f.governedAccount # "none"
  /\ w
  /\ ("transfer" \in Cat(c).needs => f.governedAccount = "ok")
  /\ ("conn" \in Cat(c).needs => cn)

\* A guard that forgets isValid.
GuardPasses_IgnoresValidation(c, valid, f, w, cn) ==
  f.governedAccount # "none" /\ w /\ ("conn" \in Cat(c).needs => cn)

GuardPasses(c, valid, f, w, cn) == valid /\ RefsPresent(c, f, w, cn)

\* formErrors after the early guard has failed, errs being what
\* validateInstruction has just set.
GuardErrors(c, errs, f, w) ==
  LET noAuthority == "transfer" \in Cat(c).needs /\ f.governedAccount = "noTransfer"
  IN  CASE Cat(c).guardMsg = "merge" ->
             errs \cup (IF noAuthority THEN {"governedAccount"} ELSE {})
                  \cup (IF ~w THEN {"_error"} ELSE {})
        [] Cat(c).guardMsg = "replace" ->
             IF ~w THEN {"_error"}
             ELSE IF noAuthority THEN {"governedAccount"} ELSE errs
        [] OTHER -> errs

\* The key the catch clause sets.
ErrorKey(c) == IF c = "OrcaCreateSplashPool.tsx#1" THEN "instruction" ELSE "_error"

\* The newer-SDK AddLiquidity and RemoveLiquidity fetch the position account
\* of form.positionMint and read its authority.
FetchesPosition(c) == c \in {"AddLiquidity.tsx#1", "RemoveLiquidity.tsx"}

\* A body that does not compare the authority.
ChecksAuthority_Never(c) == FALSE

\* if (!fetchedAuthority.equals(positionAuthority)) throw new Error(
\* "Account authority mismatch...")
ChecksAuthority(c) == c \in {"AddLiquidity.tsx#1", "RemoveLiquidity.tsx"}

\* The catch clause of the newer-SDK components picks the key by the
\* message: errorMessage.includes("authority mismatch") goes to
\* governedAccount.
CatchKey(c, fault) ==
  IF ChecksAuthority(c) /\ fault = "authority" THEN "governedAccount" ELSE ErrorKey(c)

\* What can go wrong at the SDK: nothing, setWhirlpoolsConfig throws, a
\* builder / fetch throws (network error, account not found, a failed
\* check on the fetched data), or the fetched position's authority is not
\* the governed account's transferAddress ("authority").
Faults(c) ==
  {"none"} \cup (IF Cat(c).config # "none" THEN {"config"} ELSE {})
           \cup (IF Cat(c).sdk THEN {"sdk"} ELSE {})
           \cup (IF FetchesPosition(c) THEN {"authority"} ELSE {})

\* How many instructions the builder may yield.
InstructionCounts(c) ==
  IF Cat(c).ixFixed THEN {Cat(c).ixMin} ELSE Cat(c).ixMin .. MaxInstructions

\* The decimals of the token mints on chain (of no account to a component
\* without amounts).
DecimalsOf(c) ==
  IF Cat(c).param # "none" THEN 0 .. MaxDecimals ELSE {0}

\* new PublicKey(form.<address>) / the SDK's address check throws.
AddressThrows(c, f) ==
  /\ Cat(c).sdk
  /\ \/ (Cat(c).addrA # "none" /\ ~validatePubkey(f.addrA))
     \/ (Cat(c).addrB # "none" /\ ~validatePubkey(f.addrB))

\* The body throws before the builder is called.
ThrowsBeforeBuilder(c, f, cn, fault, decA, decB) ==
  \/ (Cat(c).config # "none" /\ fault = "config")
  \/ (ChecksAuthority(c) /\ fault = "authority")
  \/ (Cat(c).usesConn /\ ~cn)
  \/ AddressThrows(c, f)
  \/ Param(c, f, decA, decB).throws

\* The body throws at the builder or after it: serializing instructions[0]
\* of an empty list throws.
ThrowsAtBuilder(c, fault, n) ==
  \/ (Cat(c).sdk /\ fault = "sdk")
  \/ (Cat(c).layout \in {"first", "firstAndRest"} /\ n = 0)

\* The exception leaves getInstruction: there is no try around it, or the
\* catch rethrows.
Escapes(c, fault) ==
  \/ Cat(c).onThrow = "reject"
  \/ (Cat(c).config # "none" /\ fault = "config" /\ ~Cat(c).configInTry)

RECURSIVE Serialized(_, _)
\* base64 of instructions from..n
Serialized(from, n) ==
  IF from > n THEN <<>>
  ELSE <<serializeInstructionToBase64(from)>> \o Serialized(from + 1, n)

\* A return statement that forgets the built instructions.
Layout_DropsInstructions(c, n) == UiInstruction(EmptyString, TRUE, <<>>)

\* The UiInstruction returned when the body ran through with n built
\* instructions.
Layout(c, n) ==
  CASE Cat(c).layout = "firstIfAny" ->
         UiInstruction(IF n > 0 THEN serializeInstructionToBase64(1) ELSE EmptyString,
                       TRUE, <<>>)
    [] Cat(c).layout = "first" ->
         UiInstruction(serializeInstructionToBase64(1), TRUE, <<>>)
    [] Cat(c).layout = "firstAndRest" ->
         UiInstruction(serializeInstructionToBase64(1), TRUE, Serialized(2, n))
    [] Cat(c).layout = "additional" ->
         UiInstruction(EmptyString, TRUE, Serialized(1, n))
    [] Cat(c).layout = "wholeTx" ->
         UiInstruction(<<"base64tx", n>>, TRUE, <<>>)

SdkCalls(c, f, cn, fault, decA, decB) ==
  (IF Cat(c).config # "none" THEN <<"setWhirlpoolsConfig">> ELSE <<>>)
    \o (IF Cat(c).sdk /\ ~ThrowsBeforeBuilder(c, f, cn, fault, decA, decB)
        THEN <<"builder">> ELSE <<>>)

\* prerequisiteInstructions / prerequisiteInstructionsSigners: how many
\* entries the arrays of the returned object hold.
Prerequisites(instructions, signers) ==
  [instructions |-> instructions, signers |-> signers]
NoPrerequisites == Prerequisites(0, 0)

\* Keypairs the body generates and pushes on prerequisiteInstructionsSigners
\* before it calls the builder: the position mint (CreatePosition.tsx:328,
\* part_001:486, part_002:429), the two token vaults (part_000:210).
SignersPushed(c) ==
  CASE c \in {"CreatePosition.tsx", "part_001#2", "part_002#2"} -> 1
    [] c = "part_000" -> 2
    [] OTHER -> 0

\* The arrays of the object returned after a successful build.  Only
\* part_000 returns prerequisite instructions (createVaultAIx,
\* createVaultBIx); every other component returns [] or an array it never
\* pushed to, or leaves the field out.
PrerequisitesBuilt(c) ==
  Prerequisites(IF c = "part_000" THEN 2 ELSE 0, SignersPushed(c))

\* The arrays of the object the catch clause returns.  CreatePosition.tsx
\* and part_002#2 return the live prerequisiteInstructionsSigners array,
\* the others a fresh [] (or an array never pushed to).
PrerequisitesCaught(c, before) ==
  IF c \in {"CreatePosition.tsx", "part_002#2"} /\ ~before
  THEN Prerequisites(0, SignersPushed(c))
  ELSE NoPrerequisites

\* A setter that merges the new messages into the old ones.
setFormErrors_Merging(prev, next) == prev \cup next

\* setFormErrors(next) with an object: the state is replaced.
setFormErrors(prev, next) == next

\* handleSetInstructions({governedAccount: form.governedAccount?.governance,
\* getInstruction}, index): what the proposal context holds afterwards.
handleSetInstructions(f) == [governedAccount |-> f.governedAccount, form |-> f]

\* The dependency array of the registering useEffect.
EffectDeps(c) ==
  CASE c \in {"part_002#1", "part_006"} ->
         {"form", "handleSetInstructions", "index", "form.governedAccount"}
    [] c = "part_005" -> {"form", "handleSetInstructions", "index"}
    [] c \in {"CreatePosition.tsx", "AddLiquidity.tsx#1", "AddLiquidity.tsx#2",
              "CreatePool.tsx", "RemoveLiquidity.tsx", "CollectFees.tsx#1",
              "CollectFees.tsx#2", "part_001#2", "part_001#3", "part_002#2",
              "part_007", "part_009", "part_010"} ->
         {"form", "governance", "index", "handleSetInstructions"}
    [] OTHER -> {"form"}

\* An effect that never runs again after the mount.
useEffect_MountOnly(c, old, f) == old

\* The render after setForm(f): the effect runs again if one of its
\* dependencies has changed, and only the form has.
useEffect(c, old, f) ==
  IF "form" \in EffectDeps(c) THEN handleSetInstructions(f) ELSE old

\* ---------------------------------------------------------------- actions
\* Several instances on one page: none has called getInstruction, the SDK
\* module is not configured yet.
NumInstances == 2
ConfiguringComponents == {c \in Components : Cat(c).config # "none"}
Instance(c, at, network) == [comp |-> c, pc |-> at, network |-> network]
PageIdle ==
  /\ whirlpoolsConfig = "unset"
  /\ instances = [i \in 1 .. NumInstances |-> Instance("ClosePosition.tsx", "idle", "none")]

\* No position is being opened.
TickRange(c, tickSpacing, lower, upper, at) ==
  [comp |-> c, tickSpacing |-> tickSpacing, tickLowerIndex |-> lower,
   tickUpperIndex |-> upper, at |-> at]
NoPosition == TickRange("CreatePosition.tsx", 1, 0, 0, "none")

\* One entry of poolData.rewardInfos: PoolUtil.isRewardInitialized of it,
\* and whether getOrCreateATAInstructionWorkaround finds no token account
\* for its mint and returns an instruction creating one.
RewardInfo(initialized, createAta) == [initialized |-> initialized, createAta |-> createAta]
\* The fetched position and pool of a ClosePosition call.
ClosePositionData(createAtaA, createAtaB, liquidity, rewardInfos, at, res) ==
  [createAtaA |-> createAtaA, createAtaB |-> createAtaB, liquidity |-> liquidity,
   rewardInfos |-> rewardInfos, at |-> at, result |-> res]
\* The arguments of an increase / decrease liquidity instruction; present
\* is false when the body built none.
LiquidityIx(present, liquidityAmount, tokenA, tokenB) ==
  [present |-> present, liquidityAmount |-> liquidityAmount,
   tokenA |-> tokenA, tokenB |-> tokenB]
NoLiquidityIx == LiquidityIx(FALSE, 0, 0, 0)
\* The body of component c: the base-unit amounts of the form, its
\* slippageBps, the liquidity of the fetched position, the SDK's liquidity
\* estimate and token quote, how far the body has got, the instruction it
\* built, and the isValid and formErrors key of what it returned.
LiquidityChange(c, amountA, amountB, slippageBps, held, at) ==
  [comp |-> c, amountA |-> amountA, amountB |-> amountB, slippageBps |-> slippageBps,
   held |-> held, liquidityAmount |-> 0, quoteA |-> 0, quoteB |-> 0, at |-> at,
   ix |-> NoLiquidityIx, isValid |-> FALSE, error |-> "none"]
\* No liquidity change is being worked out.
NoLiquidityChange == LiquidityChange("part_007", 0, 0, 0, 0, "none")

\* The body of component c: poolData.rewardInfos[i].mint ("uninitialized"
\* when PoolUtil.isRewardInitialized is false), wallet.publicKey, the
\* associated token accounts connection.getAccountInfo finds, and the
\* create instructions pushed onto prerequisiteInstructions.
AtaLookups(c, rewardMints, funder, existing, at, created) ==
  [comp |-> c, rewardMints |-> rewardMints, funder |-> funder, existing |-> existing,
   at |-> at, created |-> created]
\* No token account is being looked up.
NoAtas ==
  AtaLookups("part_010", [i \in 1 .. NumRewards |-> "uninitialized"], "wallet", {},
             "none", <<>>)

\* The fields of RemoveLiquidity's form a call reads, and the values the
\* user can give them.
EditedForm(governedAccount, positionMint, amount) ==
  [governedAccount |-> governedAccount, positionMint |-> positionMint, amount |-> amount]
EditedForms ==
  {EditedForm(g, k, a) : g \in {"G1", "G2"}, k \in {"K1", "K2"}, a \in {"1", "2"}}
\* What a call has used so far: the authority and the position mint of the
\* fetch, the amount converted, the position mint handed to the builder and
\* the governance of the returned object ("" while not read).
NothingUsed ==
  [authority |-> "", fetchedMint |-> "", amount |-> "", builderMint |-> "", governance |-> ""]
\* useState's form, the form the running closure is bound to, where the
\* call stands, what it has used.
Call(state, closure, at, used) == [state |-> state, form |-> closure, at |-> at, used |-> used]
\* No call is observed.
NoCall == Call(EditedForm("G1", "K1", "1"), EditedForm("G1", "K1", "1"), "none", NothingUsed)

\* No position is being closed.
NoClosing ==
  ClosePositionData(FALSE, FALSE, 0, [i \in 1 .. NumRewards |-> RewardInfo(FALSE, FALSE)],
                    "none", NoResult)

Init ==
  /\ call = NoCall
  /\ atas = NoAtas
  /\ liq = NoLiquidityChange
  /\ PageIdle
  /\ position = NoPosition
  /\ closing = NoClosing
  /\ comp \in Components
  /\ wallet \in BOOLEAN
  /\ conn \in BOOLEAN
  /\ form = InitialForm(comp)
  /\ formErrors = {}
  /\ pc = "idle"
  /\ isValid = FALSE
  /\ sdkLog = <<>>
  /\ handed = NothingHanded
  /\ prerequisites = NoPrerequisites
  /\ run = NotRun
  /\ result = NoResult
  /\ previousErrors = {}
  /\ registered = handleSetInstructions(form)

\* The user edits one input: handleSetForm clears formErrors and stores
\* the value.  No call is current afterwards.
SetForm(propertyName, value) ==
  /\ pc \in {"idle", "done", "rejected"}
  /\ propertyName \in Fields(comp)
  /\ value \in FieldValues(comp, propertyName)
  /\ form[propertyName] # value
  /\ form' = [form EXCEPT ![propertyName] = value]
  /\ formErrors' = {}
  /\ pc' = "idle"
  /\ isValid' = FALSE
  /\ sdkLog' = <<>>
  /\ handed' = NothingHanded
  /\ prerequisites' = NoPrerequisites
  /\ run' = NotRun
  /\ result' = NoResult
  /\ previousErrors' = {}
  /\ registered' = useEffect(comp, registered, form')
  /\ UNCHANGED <<comp, wallet, conn>>
  /\ UNCHANGED sideVars

\* getInstruction is called: up to `await validateInstruction(...)`.
GetInstruction ==
  /\ pc \in {"idle", "done", "rejected"}
  /\ formErrors' = IF Cat(comp).resets THEN {} ELSE formErrors
  /\ pc' = "validating"
  /\ isValid' = FALSE
  /\ sdkLog' = <<>>
  /\ handed' = NothingHanded
  /\ prerequisites' = NoPrerequisites
  /\ run' = NotRun
  /\ result' = NoResult
  /\ previousErrors' = formErrors
  /\ UNCHANGED <<comp, wallet, conn, form>>
  /\ UNCHANGED <<registered, sideVars>>

\* Validation has resolved: setFormErrors(validationErrors), then the
\* guard.  Either the call returns here or it goes on to the SDK.
Validated ==
  /\ pc = "validating"
  /\ LET errs == setFormErrors(formErrors, validationErrors(comp, form))
         valid == isFormValid(comp, form)
     IN  /\ isValid' = valid
         /\ IF GuardPasses(comp, valid, form, wallet, conn)
            THEN /\ pc' = "building"
                 /\ formErrors' = errs
                 /\ result' = NoResult
            ELSE /\ pc' = "done"
                 /\ IF Cat(comp).guard = "early"
                    THEN /\ formErrors' = GuardErrors(comp, errs, form, wallet)
                         /\ result' = UiInstruction(EmptyString, FALSE, <<>>)
                    ELSE /\ formErrors' = errs
                         /\ result' = UiInstruction(EmptyString, valid, <<>>)
  /\ prerequisites' = NoPrerequisites
  /\ UNCHANGED <<comp, wallet, conn, form, sdkLog, handed, run>>
  /\ UNCHANGED <<previousErrors, registered, sideVars>>

\* The body ran through (or, in the swap simulation, its catch swallowed
\* the exception): the built instructions are returned.
Built(fault, n, decA, decB) ==
  /\ pc = "building"
  /\ fault \in Faults(comp)
  /\ n \in InstructionCounts(comp)
  /\ LET before == ThrowsBeforeBuilder(comp, form, conn, fault, decA, decB)
         thrown == before \/ ThrowsAtBuilder(comp, fault, n)
     IN  /\ \/ ~thrown
            \/ (Cat(comp).onThrow = "swallow" /\ ~Escapes(comp, fault))
         /\ handed' = IF before THEN NothingHanded
                      ELSE Param(comp, form, decA, decB).handed
         /\ run' = Ran(fault, thrown, n)
  /\ sdkLog' = SdkCalls(comp, form, conn, fault, decA, decB)
  /\ result' = Layout(comp, n)
  /\ prerequisites' = PrerequisitesBuilt(comp)
  /\ pc' = "done"
  /\ UNCHANGED <<comp, wallet, conn, form, formErrors, isValid>>
  /\ UNCHANGED <<previousErrors, registered, sideVars>>

\* The body threw inside the try: the catch returns an invalid instruction
\* and, unless it only logs, sets a message.
Caught(fault, n, decA, decB) ==
  /\ pc = "building"
  /\ fault \in Faults(comp)
  /\ n \in InstructionCounts(comp)
  /\ Cat(comp).onThrow \in {"setError", "silent"}
  /\ ~Escapes(comp, fault)
  /\ LET before == ThrowsBeforeBuilder(comp, form, conn, fault, decA, decB)
     IN  /\ before \/ ThrowsAtBuilder(comp, fault, n)
         /\ handed' = IF before THEN NothingHanded
                      ELSE Param(comp, form, decA, decB).handed
         /\ prerequisites' = PrerequisitesCaught(comp, before)
         /\ run' = Ran(fault, TRUE, n)
  /\ sdkLog' = SdkCalls(comp, form, conn, fault, decA, decB)
  /\ formErrors' = IF Cat(comp).onThrow = "setError"
                   THEN formErrors \cup {CatchKey(comp, fault)} ELSE formErrors
  /\ result' = UiInstruction(EmptyString, FALSE, <<>>)
  /\ pc' = "done"
  /\ UNCHANGED <<comp, wallet, conn, form, isValid>>
  /\ UNCHANGED <<previousErrors, registered, sideVars>>

\* The body threw and nothing caught it: the promise rejects.
Rejected(fault, n, decA, decB) ==
  /\ pc = "building"
  /\ fault \in Faults(comp)
  /\ n \in InstructionCounts(comp)
  /\ Escapes(comp, fault)
  /\ LET before == ThrowsBeforeBuilder(comp, form, conn, fault, decA, decB)
     IN  /\ before \/ ThrowsAtBuilder(comp, fault, n)
         /\ handed' = IF before THEN NothingHanded
                      ELSE Param(comp, form, decA, decB).handed
         /\ run' = Ran(fault, TRUE, n)
  /\ sdkLog' = SdkCalls(comp, form, conn, fault, decA, decB)
  /\ result' = NoResult
  /\ prerequisites' = NoPrerequisites
  /\ pc' = "rejected"
  /\ UNCHANGED <<comp, wallet, conn, form, formErrors, isValid>>
  /\ UNCHANGED <<previousErrors, registered, sideVars>>

Next ==
  \/ \E propertyName \in {"governedAccount", "addrA", "addrB", "amtA", "amtB", "price"} :
       \E value \in FieldValues(comp, propertyName) : SetForm(propertyName, value)
  \/ GetInstruction
  \/ Validated
  \/ \E fault \in {"none", "config", "sdk", "authority"}, n \in 0 .. MaxInstructions :
       \E decA \in DecimalsOf(comp), decB \in DecimalsOf(comp) :
         Built(fault, n, decA, decB)
  \/ \E fault \in {"none", "config", "sdk", "authority"}, n \in 0 .. MaxInstructions :
       \E decA \in DecimalsOf(comp), decB \in DecimalsOf(comp) :
         Caught(fault, n, decA, decB)
  \/ \E fault \in {"none", "config", "sdk", "authority"}, n \in 0 .. MaxInstructions :
       \E decA \in DecimalsOf(comp), decB \in DecimalsOf(comp) :
         Rejected(fault, n, decA, decB)

Spec == Init /\ [][Next]_vars

\* ------------------------------------------------- instances side by side
\* One form instance standing idle, the state the page specification keeps
\* it in.
FormIdle ==
  /\ comp = "ClosePosition.tsx"
  /\ wallet = TRUE
  /\ conn = TRUE
  /\ form = InitialForm(comp)
  /\ formErrors = {}
  /\ pc = "idle"
  /\ isValid = FALSE
  /\ sdkLog = <<>>
  /\ handed = NothingHanded
  /\ prerequisites = NoPrerequisites
  /\ run = NotRun
  /\ result = NoResult
  /\ previousErrors = {}
  /\ registered = handleSetInstructions(form)

InitPage ==
  /\ call = NoCall
  /\ atas = NoAtas
  /\ liq = NoLiquidityChange
  /\ FormIdle
  /\ position = NoPosition
  /\ closing = NoClosing
  /\ whirlpoolsConfig = "unset"
  /\ instances \in [1 .. NumInstances -> {Instance(c, "idle", "none") : c \in ConfiguringComponents}]

\* Instance i's getInstruction (form valid, references present) up to its
\* `await setWhirlpoolsConfig(<network>)`: the SDK module now holds the
\* instance's network.
SetWhirlpoolsConfig(i) ==
  /\ instances[i].pc \in {"idle", "done"}
  /\ whirlpoolsConfig' = Cat(instances[i].comp).config
  /\ instances' = [instances EXCEPT ![i] = Instance(@.comp, "configured", "none")]
  /\ UNCHANGED <<formVars, tickVars, closeVars, liqVars, ataVars, editVars>>

\* Instance i's getInstruction resumes after the await and calls the SDK
\* builder, which reads the module's configuration as it is now.
CallBuilder(i) ==
  /\ instances[i].pc = "configured"
  /\ instances' = [instances EXCEPT ![i] = Instance(@.comp, "done", whirlpoolsConfig)]
  /\ UNCHANGED <<formVars, tickVars, closeVars, liqVars, ataVars, editVars, whirlpoolsConfig>>

NextPage ==
  \/ \E i \in 1 .. NumInstances : SetWhirlpoolsConfig(i)
  \/ \E i \in 1 .. NumInstances : CallBuilder(i)

SpecPage == InitPage /\ [][NextPage]_vars

\* ------------------------------------------------ tick range of a position
\* The components that compute the tick indexes of a concentrated
\* (non-full-range) position themselves, with the legacy SDK's TickUtil.
TickComponents ==
  {"CreatePosition.tsx", "part_001#2", "part_002#2", "OpenPositionAddLiquidity.tsx"}
\* Largest tick index and largest tick spacing drawn.
MaxTick == 4
MaxTickSpacing == 3

\* JavaScript's a % b: the remainder has the sign of a.
Remainder(a, b) == IF a >= 0 THEN a % b ELSE 0 - ((0 - a) % b)

\* TickUtil.getInitializableTickIndex(tick, tickSpacing):
\* tick - (tick % tickSpacing)
getInitializableTickIndex(tick, tickSpacing) == tick - Remainder(tick, tickSpacing)

\* The body has `if (tickLowerIndex >= tickUpperIndex) throw ...` after
\* the snapping (CreatePosition.tsx:291, part_001:459, part_002:407);
\* OpenPositionAddLiquidity.tsx has no such check.
ChecksTickOrder(c) == c \in {"CreatePosition.tsx", "part_001#2", "part_002#2"}

\* The body has converted the two prices of a valid form to tick indexes
\* (PriceMath.priceToTickIndex and the like).  The schema wants lowerPrice <
\* upperPrice and the conversion rounds down, so the lower index is at most
\* the upper one.
InitTicks ==
  /\ call = NoCall
  /\ atas = NoAtas
  /\ liq = NoLiquidityChange
  /\ FormIdle
  /\ PageIdle
  /\ closing = NoClosing
  /\ \E c \in TickComponents, spacing \in 1 .. MaxTickSpacing :
       \E lower \in (0 - MaxTick) .. MaxTick, upper \in (0 - MaxTick) .. MaxTick :
         /\ lower <= upper
         /\ position = TickRange(c, spacing, lower, upper, "converted")

\* Both indexes are snapped to the pool's tick spacing.
SnapTicks ==
  /\ position.at = "converted"
  /\ position' = TickRange(position.comp, position.tickSpacing,
                   getInitializableTickIndex(position.tickLowerIndex, position.tickSpacing),
                   getInitializableTickIndex(position.tickUpperIndex, position.tickSpacing),
                   "snapped")
  /\ UNCHANGED <<formVars, pageVars, closeVars, liqVars, ataVars, editVars>>

\* The check after the snapping throws: the catch returns isValid = false.
ThrowTickOrder ==
  /\ position.at = "snapped"
  /\ ChecksTickOrder(position.comp)
  /\ position.tickLowerIndex >= position.tickUpperIndex
  /\ position' = [position EXCEPT !.at = "thrown"]
  /\ UNCHANGED <<formVars, pageVars, closeVars, liqVars, ataVars, editVars>>

\* The body goes on and builds the open-position instruction with the two
\* indexes.
BuildOpenPosition ==
  /\ position.at = "snapped"
  /\ ~(ChecksTickOrder(position.comp)
        /\ position.tickLowerIndex >= position.tickUpperIndex)
  /\ position' = [position EXCEPT !.at = "built"]
  /\ UNCHANGED <<formVars, pageVars, closeVars, liqVars, ataVars, editVars>>

NextTicks == SnapTicks \/ ThrowTickOrder \/ BuildOpenPosition

SpecTicks == InitTicks /\ [][NextTicks]_vars

\* ------------------------------------- closing a position (legacy SDK)
\* An instruction of the list: the WhirlpoolIx builder (or the token
\* program's create-ATA) it came from, the mint of a created token account
\* and the rewardIndex of a collectReward.
Ix(op, mint, rewardIndex) == [op |-> op, mint |-> mint, rewardIndex |-> rewardIndex]

RECURSIVE RewardAtaInstructions(_, _)
\* for (const rewardInfo of poolData.rewardInfos)
\*   if (PoolUtil.isRewardInitialized(rewardInfo)) ...
\*     if (createRewardAtaIx) ataInstructions.push(createRewardAtaIx)
RewardAtaInstructions(rewardInfos, i) ==
  IF i > Len(rewardInfos) THEN <<>>
  ELSE (IF rewardInfos[i].initialized /\ rewardInfos[i].createAta
        THEN <<Ix("createAta", "reward", i - 1)>> ELSE <<>>)
       \o RewardAtaInstructions(rewardInfos, i + 1)

\* ataInstructions, pushed onto prerequisiteInstructions.
ataInstructions(createAtaA, createAtaB, rewardInfos) ==
  (IF createAtaA THEN <<Ix("createAta", "tokenMintA", 0)>> ELSE <<>>)
  \o (IF createAtaB THEN <<Ix("createAta", "tokenMintB", 0)>> ELSE <<>>)
  \o RewardAtaInstructions(rewardInfos, 1)

\* A body that decreases the liquidity whatever it is.
DecreasesLiquidity_Always(liquidity) == TRUE

\* if (!positionLiquidity.isZero())
DecreasesLiquidity(liquidity) == liquidity # 0

RECURSIVE CollectRewardInstructions(_, _)
\* poolData.rewardInfos.forEach((rewardInfo, index) => ...): one
\* collectRewardIx with rewardIndex = index per initialized reward.
CollectRewardInstructions(rewardInfos, i) ==
  IF i > Len(rewardInfos) THEN <<>>
  ELSE (IF rewardInfos[i].initialized
        THEN <<Ix("collectReward", "none", i - 1)>> ELSE <<>>)
       \o CollectRewardInstructions(rewardInfos, i + 1)

\* mainInstructions, in the order of the pushes.
mainInstructions(liquidity, rewardInfos) ==
  <<Ix("updateFeesAndRewards", "none", 0)>>
  \o (IF DecreasesLiquidity(liquidity)
      THEN <<Ix("decreaseLiquidity", "none", 0)>> ELSE <<>>)
  \o <<Ix("collectFees", "none", 0)>>
  \o CollectRewardInstructions(rewardInfos, 1)
  \o <<Ix("closePosition", "none", 0)>>

\* allInstructions = [...prerequisiteInstructions, ...mainInstructions],
\* each serialized into additionalSerializedInstructions.
allInstructions(d) ==
  ataInstructions(d.createAtaA, d.createAtaB, d.rewardInfos)
  \o mainInstructions(d.liquidity, d.rewardInfos)
SerializeAll(instructions) ==
  [i \in 1 .. Len(instructions) |-> serializeInstructionToBase64(instructions[i])]

\* The body of a valid ClosePosition form has fetched and parsed the
\* position and its pool.
InitClose ==
  /\ call = NoCall
  /\ atas = NoAtas
  /\ liq = NoLiquidityChange
  /\ FormIdle
  /\ PageIdle
  /\ position = NoPosition
  /\ \E createAtaA \in BOOLEAN, createAtaB \in BOOLEAN, liquidity \in 0 .. MaxLiquidity :
       \E rewardInfos \in [1 .. NumRewards -> [initialized : BOOLEAN, createAta : BOOLEAN]] :
         closing = ClosePositionData(createAtaA, createAtaB, liquidity, rewardInfos,
                                     "fetched", NoResult)

\* The body runs through and returns the serialized list.
BuildClosePosition ==
  /\ closing.at = "fetched"
  /\ closing' = [closing EXCEPT
                   !.at = "built",
                   !.result = UiInstruction(EmptyString, TRUE, SerializeAll(allInstructions(closing)))]
  /\ UNCHANGED <<formVars, pageVars, tickVars, liqVars, ataVars, editVars>>

\* A call after the fetch throws (an RPC error while looking up a token
\* account): the catch returns isValid = false and an empty list.
CatchClosePosition ==
  /\ closing.at = "fetched"
  /\ closing' = [closing EXCEPT
                   !.at = "caught",
                   !.result = UiInstruction(EmptyString, FALSE, <<>>)]
  /\ UNCHANGED <<formVars, pageVars, tickVars, liqVars, ataVars, editVars>>

NextClose == BuildClosePosition \/ CatchClosePosition

SpecClose == InitClose /\ [][NextClose]_vars

\* ------------------------------------ liquidity changes (legacy SDK)
\* The legacy-SDK bodies that work out a liquidity amount and slippage
\* bounds themselves: RemoveLiquidity (part_007), ClosePosition (part_010),
\* AddLiquidity (AddLiquidity.tsx, second component) and CreatePosition
\* (part_001, second component).
LiquidityComponents == {"part_007", "part_010", "AddLiquidity.tsx#2", "part_001#2"}
IsRemoval(c) == c \in {"part_007", "part_010"}

\* slippageBps values the schema accepts: .min(0).max(10000).
SlippageValues == {0, 50, 9999, 10000}

\* A body that does not compare with the position's liquidity.
ExceedsHeld_Never(liquidityToRemove, held) == FALSE

\* liquidityToRemove.gt(positionData.liquidity)
ExceedsHeld(liquidityToRemove, held) == liquidityToRemove > held

\* The checks on the estimated liquidity that throw.
ThrowsOnLiquidity(c, liquidityAmount, held) ==
  CASE c = "part_007" -> liquidityAmount = 0 \/ ExceedsHeld(liquidityAmount, held)
    [] c = "part_010" -> FALSE
    [] OTHER -> liquidityAmount = 0

\* A body that adds the slippage to the minimum.
tokenMin_Added(quote, slippageBps) == (quote * (10000 + slippageBps)) \div 10000

\* quote.tokenA.mul(new BN(10000 - form.slippageBps)).div(new BN(10000))
tokenMin(quote, slippageBps) == (quote * (10000 - slippageBps)) \div 10000

\* amount.mul(new BN(10000).add(slippageTolerance)).div(new BN(10000))
tokenMax(amount, slippageBps) == (amount * (10000 + slippageBps)) \div 10000

\* What tokenMax is computed from: the form's amounts in AddLiquidity.tsx,
\* the SDK's quote for the estimated liquidity in part_001.
MaxFromQuote(c) == c = "part_001#2"

\* The instruction the body builds.
BuiltLiquidityIx(l) ==
  CASE l.comp = "part_007" ->
         LiquidityIx(TRUE, l.liquidityAmount, tokenMin(l.quoteA, l.slippageBps),
                     tokenMin(l.quoteB, l.slippageBps))
    [] l.comp = "part_010" ->
         IF DecreasesLiquidity(l.held)
         THEN LiquidityIx(TRUE, l.held, tokenMin(l.quoteA, l.slippageBps),
                          tokenMin(l.quoteB, l.slippageBps))
         ELSE NoLiquidityIx
    [] OTHER ->
         LiquidityIx(TRUE, l.liquidityAmount,
                     tokenMax(IF MaxFromQuote(l.comp) THEN l.quoteA ELSE l.amountA, l.slippageBps),
                     tokenMax(IF MaxFromQuote(l.comp) THEN l.quoteB ELSE l.amountB, l.slippageBps))

\* The body of a valid form has fetched the pool (and, but for part_001,
\* which opens a new one, the position) and converted the form's amounts.
InitLiquidity ==
  /\ call = NoCall
  /\ atas = NoAtas
  /\ FormIdle
  /\ PageIdle
  /\ position = NoPosition
  /\ closing = NoClosing
  /\ \E c \in LiquidityComponents, slippageBps \in SlippageValues :
       \E amountA \in 0 .. MaxAmount, amountB \in 0 .. MaxAmount, held \in 0 .. MaxLiquidity :
         /\ c = "part_001#2" => held = 0
         /\ c = "part_010" => (amountA = 0 /\ amountB = 0)
         /\ liq = LiquidityChange(c, amountA, amountB, slippageBps, held, "fetched")

\* PoolUtil.estimateMaxLiquidityFromTokenAmounts and
\* PoolUtil.getTokenAmountsFromLiquidity answer.  No tokens give no
\* liquidity, and no liquidity quotes no tokens; ClosePosition quotes the
\* whole liquidity of the position; when adding, the quote for the
\* estimated liquidity does not exceed the amounts it was estimated from.
EstimateLiquidity(liquidityAmount, quoteA, quoteB) ==
  /\ liq.at = "fetched"
  /\ liq.comp = "part_010" => liquidityAmount = liq.held
  /\ (liq.comp # "part_010" /\ liq.amountA = 0 /\ liq.amountB = 0) => liquidityAmount = 0
  /\ liquidityAmount = 0 => (quoteA = 0 /\ quoteB = 0)
  /\ ~IsRemoval(liq.comp) => (quoteA <= liq.amountA /\ quoteB <= liq.amountB)
  /\ liq' = [liq EXCEPT !.liquidityAmount = liquidityAmount, !.quoteA = quoteA,
                         !.quoteB = quoteB, !.at = "estimated"]
  /\ UNCHANGED <<formVars, pageVars, tickVars, closeVars, ataVars, editVars>>

\* A check on the estimate throws: the catch sets formErrors._error and
\* returns isValid = false.
ThrowLiquidity ==
  /\ liq.at = "estimated"
  /\ ThrowsOnLiquidity(liq.comp, liq.liquidityAmount, liq.held)
  /\ liq' = [liq EXCEPT !.at = "thrown", !.isValid = FALSE, !.error = "_error"]
  /\ UNCHANGED <<formVars, pageVars, tickVars, closeVars, ataVars, editVars>>

\* The body builds the instruction and returns isValid = true.
BuildLiquidityIx ==
  /\ liq.at = "estimated"
  /\ ~ThrowsOnLiquidity(liq.comp, liq.liquidityAmount, liq.held)
  /\ liq' = [liq EXCEPT !.at = "built", !.ix = BuiltLiquidityIx(liq), !.isValid = TRUE]
  /\ UNCHANGED <<formVars, pageVars, tickVars, closeVars, ataVars, editVars>>

NextLiquidity ==
  \/ \E liquidityAmount \in 0 .. MaxLiquidity + 1 :
       \E quoteA \in 0 .. MaxAmount, quoteB \in 0 .. MaxAmount :
         EstimateLiquidity(liquidityAmount, quoteA, quoteB)
  \/ ThrowLiquidity
  \/ BuildLiquidityIx

SpecLiquidity == InitLiquidity /\ [][NextLiquidity]_vars

\* ------------------------------- associated token accounts (legacy SDK)
\* The legacy-SDK bodies that create missing token accounts: CollectFees
\* (CollectFees.tsx, second component), ClosePosition (part_010) and
\* CreatePosition (part_001, second component).
AtaComponents == {"CollectFees.tsx#2", "part_010", "part_001#2"}
\* The pool's two token mints, and one more mint a reward can be paid in.
Mints == {"tokenMintA", "tokenMintB", "otherMint"}
\* form.governedAccount.extensions.transferAddress
Authority == "authority"

\* findAssociatedTokenAddress(owner, mint): the address derived from the
\* two keys.
findAssociatedTokenAddress(owner, mint) == <<"ata", owner, mint>>

\* getOrCreateATAInstructionWorkaround(connection, mint, owner, funder):
\* createAtaInstruction(funder, address, owner, mint) if getAccountInfo
\* finds no account at the address, else no instruction.
getOrCreateATAInstructionWorkaround(existing, mint, owner, funder) ==
  IF findAssociatedTokenAddress(owner, mint) \in existing THEN <<>>
  ELSE <<[payer |-> funder, associatedToken |-> findAssociatedTokenAddress(owner, mint),
          owner |-> owner, mint |-> mint]>>

RECURSIVE RewardAtas(_, _, _, _)
\* for (const rewardInfo of poolData.rewardInfos)
\*   if (PoolUtil.isRewardInitialized(rewardInfo)) ... getOrCreate ...
RewardAtas(existing, rewardMints, funder, i) ==
  IF i > Len(rewardMints) THEN <<>>
  ELSE (IF rewardMints[i] # "uninitialized"
        THEN getOrCreateATAInstructionWorkaround(existing, rewardMints[i], Authority, funder)
        ELSE <<>>)
       \o RewardAtas(existing, rewardMints, funder, i + 1)

\* The create instructions of one call, in the order of the pushes.
CreatedAtas(a) ==
  IF a.comp = "part_001#2"
  THEN getOrCreateATAInstructionWorkaround(a.existing, "tokenMintA", a.funder, a.funder)
       \o getOrCreateATAInstructionWorkaround(a.existing, "tokenMintB", a.funder, a.funder)
       \o getOrCreateATAInstructionWorkaround(a.existing, "tokenMintA", Authority, a.funder)
       \o getOrCreateATAInstructionWorkaround(a.existing, "tokenMintB", Authority, a.funder)
  ELSE getOrCreateATAInstructionWorkaround(a.existing, "tokenMintA", Authority, a.funder)
       \o getOrCreateATAInstructionWorkaround(a.existing, "tokenMintB", Authority, a.funder)
       \o RewardAtas(a.existing, a.rewardMints, a.funder, 1)

\* The body of a valid form has fetched the pool.  CreatePosition does not
\* read the rewards; the other two look up the authority's accounts only.
InitAta ==
  /\ call = NoCall
  /\ FormIdle
  /\ PageIdle
  /\ position = NoPosition
  /\ closing = NoClosing
  /\ liq = NoLiquidityChange
  /\ \E c \in AtaComponents, funder \in {"wallet", Authority} :
       \E rewardMints \in [1 .. NumRewards -> Mints \cup {"uninitialized"}] :
         \E existing \in SUBSET {findAssociatedTokenAddress(o, m) : o \in {"wallet", Authority}, m \in Mints} :
           /\ c = "part_001#2" =>
                /\ rewardMints = [i \in 1 .. NumRewards |-> "uninitialized"]
                /\ \A ad \in existing : ad[3] # "otherMint"
           /\ c # "part_001#2" => \A ad \in existing : ad[2] = Authority
           /\ atas = AtaLookups(c, rewardMints, funder, existing, "fetched", <<>>)

\* The lookups answer and the body pushes the create instructions.
BuildAtas ==
  /\ atas.at = "fetched"
  /\ atas' = [atas EXCEPT !.at = "built", !.created = CreatedAtas(atas)]
  /\ UNCHANGED <<formVars, pageVars, tickVars, closeVars, liqVars, editVars>>

\* A lookup throws: the catch returns an empty list.
CatchAtas ==
  /\ atas.at = "fetched"
  /\ atas' = [atas EXCEPT !.at = "caught", !.created = <<>>]
  /\ UNCHANGED <<formVars, pageVars, tickVars, closeVars, liqVars, editVars>>

NextAta == BuildAtas \/ CatchAtas

SpecAta == InitAta /\ [][NextAta]_vars

\* --------------------------------------- editing while a call is awaiting
\* A body that reads the form through a reference to the latest state.
ReadForm_Latest(c, field) == c.state[field]

\* getInstruction reads `form`, the constant of the render that created
\* it: form.<field> is the value of that render.
ReadForm(c, field) == c.form[field]

\* The form is mounted with valid values and no call is running.
InitEdit ==
  /\ FormIdle
  /\ PageIdle
  /\ position = NoPosition
  /\ closing = NoClosing
  /\ liq = NoLiquidityChange
  /\ atas = NoAtas
  /\ \E f \in EditedForms : call = Call(f, f, "idle", NothingUsed)

\* The user edits a field: setForm stores a new object and the component
\* renders again; a running call keeps the closure it was started with.
EditForm(field, value) ==
  /\ call.at # "none"
  /\ call.state[field] # value
  /\ call' = [call EXCEPT !.state = [call.state EXCEPT ![field] = value]]
  /\ UNCHANGED <<formVars, pageVars, tickVars, closeVars, liqVars, ataVars>>

\* The parent calls the registered getInstruction, the one of the latest
\* render: it runs up to `await validateInstruction(...)`.
StartCall ==
  /\ call.at \in {"idle", "returned"}
  /\ call' = Call(call.state, call.state, "validating", NothingUsed)
  /\ UNCHANGED <<formVars, pageVars, tickVars, closeVars, liqVars, ataVars>>

\* Validation has resolved: the body reads the governed account's
\* transferAddress and form.positionMint and awaits the position account.
FetchPosition ==
  /\ call.at = "validating"
  /\ call' = [call EXCEPT !.at = "fetching",
                          !.used.authority = ReadForm(call, "governedAccount"),
                          !.used.fetchedMint = ReadForm(call, "positionMint")]
  /\ UNCHANGED <<formVars, pageVars, tickVars, closeVars, liqVars, ataVars>>

\* The fetches have resolved: the body reads the amount and awaits
\* uiAmountToBigInt.
ConvertAmount ==
  /\ call.at = "fetching"
  /\ call' = [call EXCEPT !.at = "converting",
                          !.used.amount = ReadForm(call, "amount")]
  /\ UNCHANGED <<formVars, pageVars, tickVars, closeVars, liqVars, ataVars>>

\* The conversion has resolved: the body reads form.positionMint again and
\* awaits decreaseLiquidityInstructions.
CallDecreaseLiquidity ==
  /\ call.at = "converting"
  /\ call' = [call EXCEPT !.at = "building",
                          !.used.builderMint = ReadForm(call, "positionMint")]
  /\ UNCHANGED <<formVars, pageVars, tickVars, closeVars, liqVars, ataVars>>

\* The builder has resolved: the body returns the object, with governance:
\* form.governedAccount?.governance.
ReturnInstruction ==
  /\ call.at = "building"
  /\ call' = [call EXCEPT !.at = "returned",
                          !.used.governance = ReadForm(call, "governedAccount")]
  /\ UNCHANGED <<formVars, pageVars, tickVars, closeVars, liqVars, ataVars>>

NextEdit ==
  \/ \E field \in {"governedAccount", "positionMint", "amount"} :
       \E value \in {f[field] : f \in EditedForms} : EditForm(field, value)
  \/ StartCall
  \/ FetchPosition
  \/ ConvertAmount
  \/ CallDecreaseLiquidity
  \/ ReturnInstruction

SpecEdit == InitEdit /\ [][NextEdit]_vars

\* ================================================================ claims
\* The current call has returned a UiInstruction.
Returned == pc = "done" /\ result.returned
\* Validation of the current call has resolved.
PastValidation == pc \in {"building", "done", "rejected"}

\* C1: in every form component, when schema validation of the form fails,
\* getInstruction resolves (it neither goes on to the SDK nor rejects) with
\* isValid = false and serializedInstruction = ''.
C1_InvalidFormGivesInvalidInstruction ==
  ~isFormValid(comp, form) =>
    /\ pc \notin {"building", "rejected"}
    /\ pc = "done" => /\ result.returned
                      /\ ~result.isValid
                      /\ result.serializedInstruction = EmptyString

\* C1 witness: a call has returned on a form that fails validation although
\* wallet, connection and governed account are all there.
C1_Witness ==
  /\ Returned
  /\ ~isFormValid(comp, form)
  /\ wallet /\ conn /\ form.governedAccount = "ok"
  /\ Cat(comp).guard = "block"

\* The body raised no exception: every SDK call succeeded.
SdkSucceeded == pc = "done" /\ ~run.threw
\* Wallet, governed account (with its authority address) and connection.
AllPresent == wallet /\ conn /\ form.governedAccount = "ok"

\* C2 as stated: when validation passes, wallet, governed account and
\* connection are present and the SDK calls succeed, getInstruction returns
\* isValid = true and a non-empty serializedInstruction.
C2_Original ==
  (SdkSucceeded /\ isFormValid(comp, form) /\ AllPresent) =>
    /\ result.returned
    /\ result.isValid
    /\ result.serializedInstruction # EmptyString

\* C2 amended: when validation passes, wallet, governed account (with its
\* authority address) and connection are present and the SDK calls succeed
\* and yield at least one instruction, getInstruction returns isValid = true
\* and serialized instructions, in serializedInstruction or, with
\* serializedInstruction left empty, in additionalSerializedInstructions.
C2_ValidFormGivesInstructions ==
  (SdkSucceeded /\ isFormValid(comp, form) /\ AllPresent /\ run.n >= 1) =>
    /\ result.returned
    /\ result.isValid
    /\ \/ result.serializedInstruction # EmptyString
       \/ result.additionalSerializedInstructions # <<>>

\* C2 witness: a successful build that returns its instructions in
\* additionalSerializedInstructions alone.
C2_Witness ==
  /\ SdkSucceeded /\ isFormValid(comp, form) /\ AllPresent /\ run.n >= 1
  /\ result.isValid
  /\ result.serializedInstruction = EmptyString
  /\ Len(result.additionalSerializedInstructions) = run.n

\* C3: whenever an SDK or network call throws inside getInstruction, the
\* exception is caught: the call resolves, and with isValid = false.
C3_SdkErrorsAreCaught ==
  (pc \in {"done", "rejected"} /\ run.fault # "none") =>
    /\ pc = "done"
    /\ result.returned
    /\ ~result.isValid

\* C4: whenever getInstruction returns isValid = false, formErrors is not
\* empty afterwards.
C4_InvalidInstructionLeavesMessage ==
  (Returned /\ ~result.isValid) => formErrors # {}

\* C5: getInstruction calls no SDK builder and fetches no account unless
\* validation has passed and wallet.publicKey and the governed account's
\* governance account are set.
C5_NoSdkCallBeforeGuard ==
  (pc = "building" \/ sdkLog # <<>>) =>
    /\ isFormValid(comp, form)
    /\ wallet
    /\ form.governedAccount # "none"

\* C5 witness: the builder has been called.
C5_Witness ==
  /\ pc = "done"
  /\ Len(sdkLog) >= 1
  /\ sdkLog[Len(sdkLog)] = "builder"

\* C6: when validation passes but wallet.publicKey is null, getInstruction
\* returns isValid = false.
C6_NoWalletGivesInvalidInstruction ==
  (pc \in {"done", "rejected"} /\ isFormValid(comp, form) /\ ~wallet) =>
    /\ result.returned
    /\ ~result.isValid

\* The form has a token A amount field and a token B amount field.
TwoAmountFields(c) == {"amtA", "amtB"} \subseteq Fields(c)
\* The amount typed into a field is positive.
PositiveAmount(s) == GtZero(parseFloat(OrZero(s)))

\* C7: in every form with a token A and a token B amount field, validation
\* accepts the form only if exactly one of the two amounts is positive;
\* both zero and both positive are rejected.
C7_ExactlyOneAmountPositive ==
  (PastValidation /\ TwoAmountFields(comp) /\ isValid) =>
    (PositiveAmount(form.amtA) /\ ~PositiveAmount(form.amtB))
      \/ (~PositiveAmount(form.amtA) /\ PositiveAmount(form.amtB))

\* The form creates a pool: it has an initial price field.
PoolCreation(c) == "price" \in Fields(c)

\* C8: in every pool-creation form, validation rejects an initial price of
\* 0 and accepts an initial price of 0.01.
C8_ZeroPriceRejected ==
  (PastValidation /\ PoolCreation(comp)) =>
    /\ form.price = S_0 => ~isValid
    /\ form.price = S_001 => "initialPrice" \notin validationErrors(comp, form)

\* C9: in every address field, validation accepts a well formed base58
\* public key and rejects a malformed string.
C9_AddressFieldsValidated ==
  PastValidation =>
    /\ ("addrA" \in Fields(comp) /\ form.addrA = "bad") => ~isValid
    /\ ("addrB" \in Fields(comp) /\ form.addrB = "bad") => ~isValid
    /\ ("addrA" \in Fields(comp) /\ validatePubkey(form.addrA)) =>
         "addrA" \notin validationErrors(comp, form)
    /\ ("addrB" \in Fields(comp) /\ validatePubkey(form.addrB)
          /\ form.addrA # form.addrB) =>
         "addrB" \notin validationErrors(comp, form)

\* x base units are exactly the amount typed as s at the mint's decimals.
ExactBaseUnits(x, s, decimals) ==
  LET v == parseFloat(OrZero(s))
  IN  ~v.nan /\ ~v.neg /\ x * Pow10(v.e) = v.m * Pow10(decimals)

\* C10: every token amount handed to an SDK builder equals the amount typed
\* into the form times 10^decimals, decimals being those of the token's
\* mint account on chain.
C10_AmountsScaledByMintDecimals ==
  /\ handed.hasA => ExactBaseUnits(handed.a, form.amtA, handed.decA)
  /\ handed.hasB => ExactBaseUnits(handed.b, form.amtB, handed.decB)

\* C11: whenever getInstruction returns isValid = false, the returned object
\* carries no serialized instruction, no additional serialized
\* instructions, no prerequisite instructions and no prerequisite signers.
C11_NoPartialApplication ==
  (Returned /\ ~result.isValid) =>
    /\ result.serializedInstruction = EmptyString
    /\ result.additionalSerializedInstructions = <<>>
    /\ prerequisites = NoPrerequisites

\* C12: no mutable state is shared between form instances: the network
\* configuration an instance's SDK builder runs under is the one that
\* instance asked for, whatever calls of other instances are interleaved.
C12_InstancesIndependent ==
  \A i \in 1 .. NumInstances :
    instances[i].pc = "done" =>
      instances[i].network = Cat(instances[i].comp).config

\* C13: after every change of the form state the component has
\* re-registered with the proposal context: the registered governedAccount
\* is the current form's, and the registered getInstruction reads the
\* current form.
C13_ReRegisteredOnFormChange ==
  /\ registered.governedAccount = form.governedAccount
  /\ registered.form = form

\* C13 witness: the form has been edited, governed account included, and a
\* call of the registered getInstruction has returned.
C13_Witness ==
  /\ form.governedAccount # InitialForm(comp).governedAccount
  /\ form.addrA # InitialForm(comp).addrA
  /\ registered = handleSetInstructions(form)
  /\ Returned

\* C14: validation results do not persist between attempts: a call that
\* passes validation and succeeds leaves formErrors empty, whatever errors
\* earlier attempts had set.
C14_ErrorsDoNotPersist ==
  (Returned /\ isValid /\ result.isValid) => formErrors = {}

\* C14 witness: a call has succeeded although earlier attempts had left
\* messages, which are gone.
C14_Witness ==
  /\ Returned /\ isValid /\ result.isValid
  /\ previousErrors # {}
  /\ sdkLog # <<>>
  /\ formErrors = {}

\* C15: when schema validation fails, the message of every failing field is
\* in formErrors after getInstruction has returned; none is dropped or
\* overwritten by another message.
C15_FieldErrorsKept ==
  (Returned /\ ~isFormValid(comp, form)) =>
    validationErrors(comp, form) \subseteq formErrors

\* C16: every open-position instruction built for a non-full-range position
\* has tickLowerIndex < tickUpperIndex after the snapping to the pool's
\* tick spacing; when the snapping leaves the two equal or inverted, no
\* instruction is built.
C16_TicksOrderedWhenBuilt ==
  position.at = "built" => position.tickLowerIndex < position.tickUpperIndex

\* The instructions the returned object holds, in order: those of
\* serializedInstruction (one, or a whole serialized transaction) and then
\* those of additionalSerializedInstructions.
ReturnedInstructions ==
  LET ser == result.serializedInstruction
  IN  (IF ser = EmptyString THEN <<>>
       ELSE IF ser[1] = "base64tx" THEN Serialized(1, ser[2])
       ELSE <<ser>>)
        \o result.additionalSerializedInstructions

\* C17: for every successful build, each instruction the SDK returned
\* appears exactly once in the returned object, in the order the SDK
\* produced them; none is dropped.
C17_EveryInstructionReturned ==
  (Returned /\ result.isValid /\ ~run.threw /\ sdkLog # <<>>) =>
    ReturnedInstructions = Serialized(1, run.n)

\* C18: no pool-creation instruction is built with the same mint as token A
\* and token B: a form whose two tokens are the same mint is rejected by
\* schema validation, and the builder is never called for it.
C18_DistinctMints ==
  (PoolCreation(comp) /\ validatePubkey(form.addrA) /\ form.addrA = form.addrB) =>
    /\ PastValidation => ~isValid
    /\ sdkLog = <<>>

\* C19: the newer-SDK AddLiquidity and RemoveLiquidity call the SDK's
\* increase / decrease liquidity builder only if the authority read from the
\* fetched position account is the governed account's transfer address; on
\* a mismatch getInstruction returns isValid = false and the error is
\* attached to the governedAccount field.
C19_AuthorityChecked ==
  (FetchesPosition(comp) /\ pc \in {"done", "rejected"} /\ run.fault = "authority") =>
    /\ sdkLog = <<"setWhirlpoolsConfig">>
    /\ Returned
    /\ ~result.isValid
    /\ "governedAccount" \in formErrors

\* C19 witness: RemoveLiquidity has returned on a position whose authority
\* is not the governed account's.
C19_Witness ==
  /\ comp = "RemoveLiquidity.tsx"
  /\ Returned
  /\ run.fault = "authority"
  /\ form.governedAccount = "ok"
  /\ formErrors = {"governedAccount"}

\* The place of each kind of instruction in the order.
OpRank(op) ==
  CASE op = "createAta" -> 0
    [] op = "updateFeesAndRewards" -> 1
    [] op = "decreaseLiquidity" -> 2
    [] op = "collectFees" -> 3
    [] op = "collectReward" -> 4
    [] op = "closePosition" -> 5

\* The instructions the returned list of the ClosePosition call serializes.
ClosedWith ==
  [i \in 1 .. Len(closing.result.additionalSerializedInstructions) |->
     closing.result.additionalSerializedInstructions[i][2]]
CountOf(op) == Cardinality({i \in 1 .. Len(ClosedWith) : ClosedWith[i].op = op})

\* C20: the list the legacy ClosePosition returns is ordered: ATA creations
\* first, then updateFeesAndRewards, then decreaseLiquidity (present if and
\* only if the position's liquidity is not zero), then collectFees, then one
\* collectReward per initialized reward in ascending reward index, and
\* closePosition last.
C20_ClosePositionOrder ==
  closing.at = "built" =>
    /\ \A i \in 1 .. Len(ClosedWith) :
         closing.result.additionalSerializedInstructions[i][1] = "base64"
    /\ \A i, j \in 1 .. Len(ClosedWith) :
         i < j => /\ OpRank(ClosedWith[i].op) <= OpRank(ClosedWith[j].op)
                  /\ (ClosedWith[i].op = "collectReward" /\ ClosedWith[j].op = "collectReward")
                       => ClosedWith[i].rewardIndex < ClosedWith[j].rewardIndex
    /\ CountOf("updateFeesAndRewards") = 1
    /\ CountOf("decreaseLiquidity") = (IF closing.liquidity # 0 THEN 1 ELSE 0)
    /\ CountOf("collectFees") = 1
    /\ {ClosedWith[i].rewardIndex : i \in {k \in 1 .. Len(ClosedWith) : ClosedWith[k].op = "collectReward"}}
         = {k - 1 : k \in {r \in 1 .. NumRewards : closing.rewardInfos[r].initialized}}
    /\ CountOf("closePosition") = 1
    /\ ClosedWith[Len(ClosedWith)].op = "closePosition"

\* C20 witness: a position with liquidity whose pool has its first and
\* last reward initialized, one token account missing, has been built.
C20_Witness ==
  /\ closing.at = "built"
  /\ closing.result.isValid
  /\ closing.liquidity # 0
  /\ closing.createAtaA /\ ~closing.createAtaB
  /\ closing.rewardInfos[1].initialized
  /\ ~closing.rewardInfos[2].initialized
  /\ closing.rewardInfos[NumRewards].initialized
  /\ ~closing.rewardInfos[1].createAta /\ closing.rewardInfos[NumRewards].createAta
  /\ Len(ClosedWith) = 8

\* C21: the legacy RemoveLiquidity never builds a decreaseLiquidity
\* instruction whose liquidity amount is zero or more than the fetched
\* position holds; in both cases getInstruction returns isValid = false
\* with an error message.
C21_RemovesWithinHeld ==
  liq.comp = "part_007" =>
    /\ liq.ix.present => (liq.ix.liquidityAmount > 0 /\ liq.ix.liquidityAmount <= liq.held)
    /\ (liq.at \in {"built", "thrown"}
         /\ (liq.liquidityAmount = 0 \/ liq.liquidityAmount > liq.held))
         => (~liq.ix.present /\ ~liq.isValid /\ liq.error # "none")

\* C21 witness: the estimate was more than the position held, and the call
\* has returned without an instruction.
C21_Witness ==
  /\ liq.comp = "part_007"
  /\ liq.at = "thrown"
  /\ liq.held > 0
  /\ liq.liquidityAmount > liq.held
  /\ ~liq.ix.present
  /\ ~liq.isValid

\* C22 as stated: for every accepted slippageBps the bounds placed in the
\* instruction satisfy 0 <= tokenMin <= quoted amount when removing and
\* tokenMax >= input amount when adding.
C22_Original ==
  (liq.at = "built" /\ liq.ix.present) =>
    IF IsRemoval(liq.comp)
    THEN /\ 0 <= liq.ix.tokenA /\ liq.ix.tokenA <= liq.quoteA
         /\ 0 <= liq.ix.tokenB /\ liq.ix.tokenB <= liq.quoteB
    ELSE /\ liq.ix.tokenA >= liq.amountA
         /\ liq.ix.tokenB >= liq.amountB

\* C22, amended: for every accepted slippageBps, 0 <= tokenMin <= quoted
\* amount when removing, and when adding tokenMax is at least the amount it
\* is computed from: the input amount in AddLiquidity, the amount the SDK
\* quoted for the estimated liquidity in part_001's CreatePosition.
C22_SlippageBounds ==
  (liq.at = "built" /\ liq.ix.present) =>
    IF IsRemoval(liq.comp)
    THEN /\ 0 <= liq.ix.tokenA /\ liq.ix.tokenA <= liq.quoteA
         /\ 0 <= liq.ix.tokenB /\ liq.ix.tokenB <= liq.quoteB
    ELSE IF MaxFromQuote(liq.comp)
    THEN /\ liq.ix.tokenA >= liq.quoteA
         /\ liq.ix.tokenB >= liq.quoteB
    ELSE /\ liq.ix.tokenA >= liq.amountA
         /\ liq.ix.tokenB >= liq.amountB

\* C22 witness: part_001's CreatePosition has built an instruction whose
\* tokenMaxA covers the quote but is below the amount typed into the form.
C22_Witness ==
  /\ liq.comp = "part_001#2"
  /\ liq.at = "built"
  /\ liq.ix.present
  /\ liq.slippageBps > 0
  /\ liq.quoteA < liq.amountA
  /\ liq.ix.tokenA >= liq.quoteA
  /\ liq.ix.tokenA < liq.amountA

\* C23: the instruction list of one getInstruction call never holds two
\* instructions creating the associated token account of the same address,
\* also when a reward mint is one of the pool's token mints or the funder is
\* the owner.
C23_NoDuplicateAta ==
  \A i, j \in 1 .. Len(atas.created) :
    i # j => atas.created[i].associatedToken # atas.created[j].associatedToken

\* C24: the newer-SDK RemoveLiquidity calls decreaseLiquidityInstructions
\* only with a strictly positive base-unit amount: a UI amount validation
\* accepted as positive never reaches the SDK as 0.
C24_PositiveAmountReachesSdk ==
  (comp = "RemoveLiquidity.tsx" /\ pc = "done" /\ sdkLog = <<"setWhirlpoolsConfig", "builder">>) =>
    /\ (handed.hasA /\ PositiveAmount(form.amtA)) => handed.a > 0
    /\ (handed.hasB /\ PositiveAmount(form.amtB)) => handed.b > 0

\* C25: in CreatePosition, for every amount string that passes validation,
\* the base-unit amount passed to the liquidity estimate is the number
\* validation read from the string times 10^decimals, and a string
\* validated as positive is never converted to 0.
C25_EstimateGetsValidatedAmount ==
  (comp = "CreatePosition.tsx" /\ pc = "done" /\ isValid) =>
    /\ handed.hasA =>
         /\ ExactBaseUnits(handed.a, form.amtA, handed.decA)
         /\ PositiveAmount(form.amtA) => handed.a > 0
    /\ handed.hasB =>
         /\ ExactBaseUnits(handed.b, form.amtB, handed.decB)
         /\ PositiveAmount(form.amtB) => handed.b > 0

\* C26: if the user edits the form while a getInstruction call is awaiting
\* the network, the object the call returns is built entirely from the form
\* values as they were when the call started, never from a mix of old and
\* new values.
C26_BuiltFromFormAtStart ==
  call.at = "returned" =>
    /\ call.used.authority = call.form.governedAccount
    /\ call.used.governance = call.form.governedAccount
    /\ call.used.fetchedMint = call.form.positionMint
    /\ call.used.builderMint = call.form.positionMint
    /\ call.used.amount = call.form.amount

\* C26 witness: a call has returned after the user changed the position
\* mint and the amount under it; it used the values it started with.
C26_Witness ==
  /\ call.at = "returned"
  /\ call.state.positionMint # call.form.positionMint
  /\ call.state.amount # call.form.amount
  /\ call.used.fetchedMint = call.form.positionMint
  /\ call.used.builderMint = call.form.positionMint
  /\ call.used.amount = call.form.amount

====
